---- MODULE Spec2Model ----
(***************************************************************************)
(* Model of the goodneighbor-server WebSocket gateway: the session table,  *)
(* the heartbeat monitor, the message router and its handlers, the        *)
(* asynchronous backend calls of the handlers and the error classifier.   *)
(*                                                                         *)
(* The modelled program is the modular implementation                      *)
(* (services/connection, services/handlers, utils).                         *)
(***************************************************************************)
EXTENDS Integers, Sequences, FiniteSets, TLC

(***************************************************************************)
(* Bounds of the model                                                     *)
(***************************************************************************)
\* sockets accepted plus inbound frames handled in a behaviour of the router
MaxLoad == 4
\* sockets accepted plus frames handled, and firings of the heartbeat
\* interval, in a behaviour of the heartbeat monitor
MaxLoadHB == 2
MaxTicksHB == 5
\* sockets accepted plus frames handled where progress is studied
MaxLoadLive == 3
\* number of 'data' events of one backend stream
MaxChunks == 1
\* the same two bounds where the router and the monitor run together
MaxLoadAll == 3
MaxTicksAll == 2
\* number of fragments of one backend text stream
MaxFrames == 2

(***************************************************************************)
(* Program constants                                                       *)
(***************************************************************************)
\* WS_CONFIG.PING_INTERVAL (ms)
PING_INTERVAL == 30000
\* WS_CONFIG.PING_TIMEOUT (ms)
PING_TIMEOUT == 30000
\* delay of the termination timer of a failed authentication (ms)
AUTH_FAIL_DELAY == 1000
\* confidence (percent) from which a suggested tool is auto-executed: 0.9
AUTO_EXECUTE_THRESHOLD == 90

MaxOf(a, b) == IF a > b THEN a ELSE b

\* socket ids; uuidv4 never repeats, so a socket is never accepted twice
ConnIds == 1..MaxOf(MaxLoad, MaxOf(MaxLoadHB, MaxLoadLive))

(***************************************************************************)
(* Strings are sequences of characters, so that trim, toLowerCase and      *)
(* includes are computed as the program computes them.                     *)
(***************************************************************************)
TOK_TIMEOUT == <<"t","i","m","e","o","u","t">>
TOK_TIMED_OUT == <<"t","i","m","e","d"," ","o","u","t">>
TOK_ETIMEDOUT == <<"e","t","i","m","e","d","o","u","t">>
TOK_AUTHENTICATION == <<"a","u","t","h","e","n","t","i","c","a","t","i","o","n">>
TOK_AUTH == <<"a","u","t","h">>
TOK_UNAUTHORIZED == <<"u","n","a","u","t","h","o","r","i","z","e","d">>
TOK_API_KEY == <<"a","p","i"," ","k","e","y">>
TOK_PERMISSION == <<"p","e","r","m","i","s","s","i","o","n">>
TOK_FORBIDDEN == <<"f","o","r","b","i","d","d","e","n">>
TOK_ACCESS_DENIED == <<"a","c","c","e","s","s"," ","d","e","n","i","e","d">>
TOK_NOT_FOUND == <<"n","o","t"," ","f","o","u","n","d">>
TOK_404 == <<"4","0","4">>
TOK_DOES_NOT_EXIST == <<"d","o","e","s"," ","n","o","t"," ","e","x","i","s","t">>
TOK_RATE_LIMIT == <<"r","a","t","e"," ","l","i","m","i","t">>
TOK_TOO_MANY == <<"t","o","o"," ","m","a","n","y"," ","r","e","q","u","e","s","t","s">>
TOK_429 == <<"4","2","9">>
TOK_INVALID == <<"i","n","v","a","l","i","d">>
TOK_PARAMETER == <<"p","a","r","a","m","e","t","e","r">>
TOK_ARGUMENT == <<"a","r","g","u","m","e","n","t">>
TOK_BAD_REQUEST == <<"b","a","d"," ","r","e","q","u","e","s","t">>
TOK_400 == <<"4","0","0">>
TOK_UNAVAILABLE == <<"u","n","a","v","a","i","l","a","b","l","e">>
TOK_SERVICE == <<"s","e","r","v","i","c","e">>
TOK_503 == <<"5","0","3">>
MSG_INVALID_FORMAT == <<"I","n","v","a","l","i","d"," ","m","e","s","s","a","g","e"," ","f","o","r","m","a","t">>
MSG_UNKNOWN_TYPE == <<"U","n","k","n","o","w","n"," ","m","e","s","s","a","g","e"," ","t","y","p","e",":"," ","b","o","g","u","s">>
MSG_TYPE_ERROR == <<"C","a","n","n","o","t"," ","r","e","a","d"," ","p","r","o","p","e","r","t","i","e","s"," ","o","f"," ","u","n","d","e","f","i","n","e","d">>
MSG_SYNTAX_ERROR == <<"U","n","e","x","p","e","c","t","e","d"," ","t","o","k","e","n">>
MSG_STATUS_404 == <<"R","e","q","u","e","s","t"," ","f","a","i","l","e","d"," ","w","i","t","h"," ","s","t","a","t","u","s"," ","c","o","d","e"," ","4","0","4">>
MSG_NETWORK == <<"N","e","t","w","o","r","k"," ","E","r","r","o","r">>
MSG_UNKNOWN_ERROR == <<"U","n","k","n","o","w","n"," ","e","r","r","o","r">>
UPPER == <<"A","B","C","D","E","F","G","H","I","J","K","L","M","N","O","P","Q","R","S","T","U","V","W","X","Y","Z">>
LOWER == <<"a","b","c","d","e","f","g","h","i","j","k","l","m","n","o","p","q","r","s","t","u","v","w","x","y","z">>

\* String.prototype.toLowerCase, one character
LowerChar(ch) ==
  IF \E i \in 1..Len(UPPER) : UPPER[i] = ch
  THEN LOWER[CHOOSE i \in 1..Len(UPPER) : UPPER[i] = ch]
  ELSE ch

\* a classifier that compares the texts as they are, which C31 must tell
\* from toLowerCase
ToLowerCase_Same(s) == s

\* String.prototype.toLowerCase
ToLowerCase(s) == [i \in 1..Len(s) |-> LowerChar(s[i])]

\* String.prototype.includes
Includes(s, tok) ==
  \E i \in 0..(Len(s) - Len(tok)) : \A j \in 1..Len(tok) : s[i + j] = tok[j]

IsSpace(ch) == ch \in {" ", "\n", "\t"}

\* String.prototype.trim
Trim(s) ==
  LET keep == {i \in 1..Len(s) : ~IsSpace(s[i])}
  IN IF keep = {} THEN <<>>
     ELSE LET lo == CHOOSE i \in keep : \A j \in keep : i <= j
              hi == CHOOSE i \in keep : \A j \in keep : j <= i
          IN SubSeq(s, lo, hi)

(***************************************************************************)
(* Error classifier (utils/error-utils.ts).  The function has two          *)
(* parameters; a third argument passed by a caller is ignored.             *)
(***************************************************************************)
determineErrorCode(error, details) ==
  LET errorMessage == ToLowerCase(error)
      errorDetails == ToLowerCase(details)
  IN IF \/ Includes(errorMessage, TOK_TIMEOUT)
        \/ Includes(errorMessage, TOK_TIMED_OUT)
        \/ Includes(errorMessage, TOK_ETIMEDOUT)
        \/ Includes(errorDetails, TOK_TIMEOUT)
     THEN "TIMEOUT"
     ELSE IF \/ Includes(errorMessage, TOK_AUTHENTICATION)
             \/ Includes(errorMessage, TOK_AUTH)
             \/ Includes(errorMessage, TOK_UNAUTHORIZED)
             \/ Includes(errorMessage, TOK_API_KEY)
     THEN "AUTH_FAILED"
     ELSE IF \/ Includes(errorMessage, TOK_PERMISSION)
             \/ Includes(errorMessage, TOK_FORBIDDEN)
             \/ Includes(errorMessage, TOK_ACCESS_DENIED)
     THEN "PERMISSION_DENIED"
     ELSE IF \/ Includes(errorMessage, TOK_NOT_FOUND)
             \/ Includes(errorMessage, TOK_404)
             \/ Includes(errorMessage, TOK_DOES_NOT_EXIST)
     THEN "NOT_FOUND"
     ELSE IF \/ Includes(errorMessage, TOK_RATE_LIMIT)
             \/ Includes(errorMessage, TOK_TOO_MANY)
             \/ Includes(errorMessage, TOK_429)
     THEN "RATE_LIMIT"
     ELSE IF \/ Includes(errorMessage, TOK_INVALID)
             \/ Includes(errorMessage, TOK_PARAMETER)
             \/ Includes(errorMessage, TOK_ARGUMENT)
             \/ Includes(errorMessage, TOK_BAD_REQUEST)
             \/ Includes(errorMessage, TOK_400)
     THEN "INVALID_PARAMS"
     ELSE IF \/ Includes(errorMessage, TOK_UNAVAILABLE)
             \/ Includes(errorMessage, TOK_SERVICE)
             \/ Includes(errorMessage, TOK_503)
     THEN "SERVICE_UNAVAILABLE"
     ELSE "INTERNAL_ERROR"

(***************************************************************************)
(* JavaScript values of the fields of a parsed frame                       *)
(***************************************************************************)
Str(s) == [t |-> "string", v |-> s]
Undefined == [t |-> "undefined", v |-> ""]

\* truthiness of a JavaScript value, as in !parsedData.type
Truthy(x) ==
  \/ x.t = "string" /\ x.v # ""
  \/ x.t = "number" /\ x.v # "0"

\* ClientMessageType
ClientMessageType ==
  {"tool_call", "auth", "ping", "chat_completion", "tool_selection",
   "natural_language_search"}

\* a correlation id that is a JSON number
NumericId == [t |-> "number", v |-> "7"]

\* the correlation id made up by uuidv4()
Uuid == Str("uuid")

\* the correlation ids clients choose
ClientIds == <<"m1", "m2", "m3", "m4", "m5", "m6", "m7", "m8">>

\* SECURITY_CONFIG.API_KEY, as read from the environment
API_KEY == <<"k", "\n">>

\* the credentials clients present; <<>> is an absent or empty apiKey
Credentials == {<<" ", "k">>, <<"x">>, <<>>}

\* raw frames: the outcome of JSON.parse and the type and id it found.
\* The n-th frame carries the n-th id, the program keeping no table of ids.
RawFramesOf(n) ==
  [json : {"object"}, type : {Str(k) : k \in ClientMessageType \cup {"bogus"}},
   id : {Str(ClientIds[n])}]
  \cup {[json |-> "object", type |-> Str("ping"), id |-> Undefined],
        [json |-> "object", type |-> Str("ping"), id |-> NumericId],
        [json |-> "nonobject", type |-> Undefined, id |-> Undefined],
        [json |-> "invalid", type |-> Undefined, id |-> Undefined]}

\* failure causes of a backend call: err.message
Causes == {MSG_STATUS_404, MSG_NETWORK}

\* the texts an error or its details may carry
ErrorTexts ==
  Causes \cup {MSG_INVALID_FORMAT, MSG_UNKNOWN_TYPE, MSG_TYPE_ERROR,
               MSG_SYNTAX_ERROR, MSG_UNKNOWN_ERROR, << >>}

\* determineErrorCode over these texts; the classifier is pure, so its
\* values are computed once
errorCodeOf ==
  [error \in ErrorTexts, details \in ErrorTexts |->
     determineErrorCode(error, details)]

(***************************************************************************)
(* State                                                                   *)
(***************************************************************************)
VARIABLES
  now,          \* Date.now()
  nextPing,     \* when the setInterval of initialize() fires next
  ticks,        \* number of firings so far
  connections,  \* ConnectionManager.connections: id -> ConnectionState
  readyState,   \* socket.readyState of every socket
  timers,       \* pending setTimeout callbacks of failed authentications
  requests,     \* the handlers suspended at an await, by frame number
  handled,      \* number of frames handled so far
  step,         \* what the last handler step did: its frame, what it wrote
  probe,        \* per connection: the outstanding transport-level probe
  relay,        \* one backend response stream and what its relay made of it
  codec,        \* one envelope, its encoding and the decoding of that
  classified,   \* one failure cause and the code the classifier gave it
  completions   \* the streamed completions outstanding at the same time

vars == <<now, nextPing, ticks, connections, readyState, timers, requests,
          handled, step, probe, relay, codec, classified, completions>>

\* the frames the clients may send next
RawFrames == RawFramesOf(handled + 1)

NoProbe == [sentAt |-> -1, acked |-> FALSE]

\* the payload fields of an envelope: tool of a tool_result, suggestions
\* and originalQuery of a tool_suggestions, timestamp of a pong
NoData ==
  [tool |-> "", suggestions |-> << >>, originalQuery |-> "",
   timestamp |-> -1]

\* an outbound envelope written to the socket of connection `to`
Envelope(to, type, id, code, success) ==
  [to |-> to, type |-> type, id |-> id, code |-> code, success |-> success,
   data |-> NoData]

\* the envelopes of sent with their payload fields
withData(sent, data) ==
  [i \in 1..Len(sent) |-> [sent[i] EXCEPT !.data = data]]

\* no candidate of a suggestion analysis
NoTool == [tool |-> "", confidence |-> 0]

\* the pong envelope {type, id, timestamp}
Pong(to, id, timestamp) ==
  [Envelope(to, "pong", id, "", FALSE) EXCEPT
     !.data = [NoData EXCEPT !.timestamp = timestamp]]

\* the envelopes that end a request
TerminalTypes ==
  {"auth_result", "pong", "tool_result", "chat_completion_result",
   "natural_language_search_result", "tool_suggestions", "error"}

Terminals(sent) == Cardinality({i \in 1..Len(sent) : sent[i].type \in TerminalTypes})

NoStep ==
  [op |-> "", n |-> 0, conn |-> 0, type |-> [t |-> "undefined", v |-> ""],
   id |-> [t |-> "undefined", v |-> ""], decoded |-> FALSE, authed |-> FALSE,
   key |-> << >>, stream |-> FALSE, open |-> FALSE, before |-> 0,
   sent |-> << >>, calls |-> << >>, done |-> FALSE, removed |-> {},
   completed |-> FALSE, suggestions |-> << >>, pending |-> FALSE,
   failed |-> {}]

\* a step that is not the step of a frame or of a backend answer
Event(op, c, removed) ==
  [NoStep EXCEPT !.op = op, !.conn = c, !.removed = removed]

\* no backend response stream is being relayed
NoRelay ==
  [phase |-> "none", payloads |-> << >>, bytes |-> << >>, pos |-> 0,
   buffer |-> << >>, emitted |-> << >>, events |-> << >>]

\* the gateway after construction and initialize()
Gateway0 ==
  /\ now = 0
  /\ nextPing = PING_INTERVAL
  /\ ticks = 0
  /\ connections = << >>
  /\ readyState = [c \in ConnIds |-> "NONE"]
  /\ timers = {}
  /\ requests = << >>
  /\ handled = 0
  /\ step = NoStep
  /\ probe = [c \in ConnIds |-> NoProbe]

\* no envelope is being encoded
NoCodec ==
  [phase |-> "none", envelope |-> << >>, text |-> << >>,
   decoded |-> [ok |-> FALSE, value |-> << >>]]

\* no failure is being classified
NoFailure ==
  [phase |-> "none", error |-> << >>, details |-> << >>, groups |-> {},
   detailGroups |-> {}, code |-> ""]

Init ==
  /\ Gateway0
  /\ relay = NoRelay
  /\ codec = NoCodec
  /\ classified = NoFailure
  /\ completions = << >>

(***************************************************************************)
(* Session table                                                           *)
(***************************************************************************)
\* WebSocket.terminate(): the close event follows later
Terminate(rs, c) == IF rs[c] = "OPEN" THEN [rs EXCEPT ![c] = "CLOSING"] ELSE rs

\* Map.delete
MapDelete(tbl, c) == [k \in DOMAIN tbl \ {c} |-> tbl[k]]

\* ConnectionManager.addConnection; uuidv4 never returns a used id
addConnection(c) ==
  /\ readyState[c] = "NONE"
  /\ \A d \in ConnIds : d < c => readyState[d] # "NONE"
  /\ connections' = connections @@
        (c :> [isAuthenticated |-> FALSE, lastPing |-> now,
               pendingPong |-> FALSE])
  /\ readyState' = [readyState EXCEPT ![c] = "OPEN"]
  /\ step' = NoStep
  /\ UNCHANGED <<now, nextPing, ticks, timers, requests, handled, probe,
                 relay, codec, classified, completions>>

\* ConnectionManager.removeConnection
removeConnection(c) ==
  IF c \in DOMAIN connections
  THEN /\ readyState' = Terminate(readyState, c)
       /\ connections' = MapDelete(connections, c)
  ELSE UNCHANGED <<readyState, connections>>

\* the peer closes the connection
PeerClose(c) ==
  /\ readyState[c] = "OPEN"
  /\ readyState' = [readyState EXCEPT ![c] = "CLOSING"]
  /\ step' = NoStep
  /\ UNCHANGED <<now, nextPing, ticks, connections, timers, requests,
                 handled, probe, relay, codec, classified, completions>>

\* socket.on('close'): removeConnection of a socket that is closed already
OnClose(c) ==
  /\ readyState[c] = "CLOSING"
  /\ readyState' = [readyState EXCEPT ![c] = "CLOSED"]
  /\ connections' = MapDelete(connections, c)
  /\ step' = NoStep
  /\ UNCHANGED <<now, nextPing, ticks, timers, requests, handled, probe,
                 relay, codec, classified, completions>>

\* socket.on('error')
OnError(c) ==
  /\ readyState[c] = "OPEN"
  /\ removeConnection(c)
  /\ step' = NoStep
  /\ UNCHANGED <<now, nextPing, ticks, timers, requests, handled, probe,
                 relay, codec, classified, completions>>

\* a handleMessage that takes a connection it does not know into the
\* table, which C36 must tell from handleMessage
UnknownConnection_Adopts(c) ==
  /\ readyState[c] = "CLOSING"
  /\ c \notin DOMAIN connections
  /\ connections' = connections @@
        (c :> [isAuthenticated |-> FALSE, lastPing |-> now,
               pendingPong |-> FALSE])
  /\ step' = Event("unknownConnection", c, {})
  /\ UNCHANGED <<now, nextPing, ticks, readyState, timers, requests,
                 handled, probe, relay, codec, classified, completions>>

\* handleMessage: a message event of a socket that was terminated by
\* removeConnection and has not closed yet; the connection is unknown, the
\* frame is not parsed
UnknownConnection(c) ==
  /\ readyState[c] = "CLOSING"
  /\ c \notin DOMAIN connections
  /\ step' = Event("unknownConnection", c, {})
  /\ UNCHANGED <<now, nextPing, ticks, connections, readyState, timers,
                 requests, handled, probe, relay, codec,
                 classified, completions>>

(***************************************************************************)
(* Sending (utils/message-sender.ts, utils/error-handler.ts).  The value   *)
(* is the sequence of envelopes written to the socket.                     *)
(***************************************************************************)
\* a send that does not look at the state of the socket, which C10 must
\* tell from sendMessage
sendMessage_Unchecked(rs, c, type, id, code, success) ==
  << Envelope(c, type, id, code, success) >>

\* utils/message-sender.ts sendMessage
sendMessage(rs, c, type, id, code, success) ==
  IF rs[c] # "OPEN" THEN << >>
  ELSE << Envelope(c, type, id, code, success) >>

sendErrorMessage(rs, c, correlationId, errorCode) ==
  sendMessage(rs, c, "error", correlationId, errorCode, FALSE)

\* err.details is undefined at every caller: the detail text is empty
handleMessageProcessingError(rs, c, errMessage, messageId) ==
  LET errorCode == errorCodeOf[errMessage, << >>]
      id == IF Truthy(messageId) THEN messageId ELSE Uuid
  IN sendErrorMessage(rs, c, id, errorCode)

\* a gate that lets every session through, which C2 must tell from the gate
checkAuthentication_Open(c) == TRUE

\* connection-validator.ts checkAuthentication: the value it returns
checkAuthentication(c) == connections[c].isAuthenticated

\* a rejection with the code of a failed handshake, which C1 must tell from
\* the rejection of the gate
notAuthenticated_AuthFailed(c, messageId) ==
  sendErrorMessage(readyState, c, messageId, "AUTH_FAILED")

\* connection-validator.ts checkAuthentication: the error it sends
notAuthenticated(c, messageId) ==
  sendErrorMessage(readyState, c, messageId, "NOT_AUTHENTICATED")

(***************************************************************************)
(* Frames.  A handler runs up to its first await in the action of its      *)
(* frame; a handler suspended at an await is an entry of requests, whose   *)
(* phase names the call it waits for, and its continuation is the action   *)
(* taken when the backend answers.                                         *)
(***************************************************************************)
\* the guard of every frame: a message event of an open socket
Receives(c) ==
  /\ readyState[c] = "OPEN"
  /\ c \in DOMAIN connections

\* message-router.ts: the validation after JSON.parse
IsValidFormat(raw) ==
  /\ raw.json = "object"
  /\ Truthy(raw.type)
  /\ Truthy(raw.id)

IsKind(raw, kind) == IsValidFormat(raw) /\ raw.type = Str(kind)

\* the handler of frame raw, whose payload has these messages, ran up to
\* phase, wrote sent and issued calls
HandleMessages(op, c, raw, phase, sent, calls, key, stream, messages) ==
  /\ handled' = handled + 1
  /\ requests' =
       IF phase = "done" THEN requests
       ELSE requests @@
            ((handled + 1) :>
               [conn |-> c, type |-> raw.type, id |-> raw.id,
                phase |-> phase, stream |-> stream, chunks |-> 0,
                terminals |-> Terminals(sent), messages |-> messages,
                auto |-> NoTool])
  /\ step' =
       [op |-> op, n |-> handled + 1, conn |-> c, type |-> raw.type,
        id |-> raw.id, decoded |-> IsValidFormat(raw),
        authed |-> connections[c].isAuthenticated, key |-> key,
        stream |-> stream, open |-> readyState[c] = "OPEN", before |-> 0,
        sent |-> sent, calls |-> calls, done |-> phase = "done",
        removed |-> {}, completed |-> FALSE, suggestions |-> << >>,
        pending |-> connections[c].pendingPong, failed |-> {}]

\* the handler of a frame whose payload has no messages
Handle(op, c, raw, phase, sent, calls, key, stream) ==
  HandleMessages(op, c, raw, phase, sent, calls, key, stream, << >>)

Awaiting(r, phase) == r \in DOMAIN requests /\ requests[r].phase = phase

\* the continuation of request r ran up to phase; completed: it got a
\* completion, with the candidates toolSuggestions, and goes on to execute
\* the candidate auto
ContinueStep(op, r, phase, sent, calls, completed, toolSuggestions, auto) ==
  /\ requests' =
       IF phase = "done" THEN MapDelete(requests, r)
       ELSE [requests EXCEPT ![r].phase = phase,
                             ![r].terminals = @ + Terminals(sent),
                             ![r].auto = auto]
  /\ step' =
       [op |-> op, n |-> r, conn |-> requests[r].conn,
        type |-> requests[r].type, id |-> requests[r].id, decoded |-> TRUE,
        authed |-> TRUE, key |-> << >>, stream |-> requests[r].stream,
        open |-> readyState[requests[r].conn] = "OPEN",
        before |-> requests[r].terminals,
        sent |-> sent, calls |-> calls, done |-> phase = "done",
        removed |-> {}, completed |-> completed,
        suggestions |-> toolSuggestions, pending |-> FALSE,
        failed |-> {}]
  /\ UNCHANGED handled

\* the continuation of request r after a successful completion
ContinueAuto(op, r, phase, sent, calls, toolSuggestions, auto) ==
  ContinueStep(op, r, phase, sent, calls, TRUE, toolSuggestions, auto)

\* the continuation of request r ran up to phase
Continue(op, r, phase, sent, calls) ==
  ContinueStep(op, r, phase, sent, calls, FALSE, << >>, requests[r].auto)

\* a router that terminates the socket of a frame it cannot decode, which
\* C14 must tell from the router
MalformedFrame_Closes(c, raw) ==
  /\ Receives(c)
  /\ ~IsValidFormat(raw)
  /\ Handle("malformed", c, raw, "done",
            handleMessageProcessingError(readyState, c, MSG_INVALID_FORMAT,
                                         Undefined),
            << >>, << >>, FALSE)
  /\ readyState' = Terminate(readyState, c)
  /\ UNCHANGED <<now, nextPing, ticks, connections, timers, probe,
                 relay, codec, classified, completions>>

\* routeMessage: JSON.parse or the validation throws
MalformedFrame(c, raw) ==
  /\ Receives(c)
  /\ ~IsValidFormat(raw)
  /\ LET msg == IF raw.json = "invalid" THEN MSG_SYNTAX_ERROR
                ELSE MSG_INVALID_FORMAT
     IN Handle("malformed", c, raw, "done",
               handleMessageProcessingError(readyState, c, msg, Undefined),
               << >>, << >>, FALSE)
  /\ UNCHANGED <<now, nextPing, ticks, connections, readyState, timers,
                 probe, relay, codec, classified, completions>>

\* routeMessage: the default case of the switch
UnknownFrame(c, raw) ==
  /\ Receives(c)
  /\ IsValidFormat(raw)
  /\ ~(raw.type.t = "string" /\ raw.type.v \in ClientMessageType)
  /\ Handle("unknown", c, raw, "done",
            handleMessageProcessingError(readyState, c, MSG_UNKNOWN_TYPE,
                                         Undefined),
            << >>, << >>, FALSE)
  /\ UNCHANGED <<now, nextPing, ticks, connections, readyState, timers,
                 probe, relay, codec, classified, completions>>

\* a comparison that accepts every credential, which C6 must tell from
\* the comparison of the trimmed keys
isValidKey_Any(key) == TRUE

\* connection-validator.ts validateAuthentication: is the key valid
isValidKey(key) ==
  LET receivedApiKey == IF key # << >> THEN Trim(key) ELSE << >>
      expectedApiKey == IF API_KEY # << >> THEN Trim(API_KEY) ELSE << >>
  IN receivedApiKey = expectedApiKey

\* a validation that takes the flag back when the key is wrong, which C34
\* must tell from validateAuthentication
AuthFrame_Resets(c, raw, hasAuth, key) ==
  /\ Receives(c)
  /\ IsKind(raw, "auth")
  /\ IF ~hasAuth
     THEN \* auth.apiKey of an absent auth object throws
          /\ key = << >>
          /\ Handle("authThrow", c, raw, "done",
               handleMessageProcessingError(readyState, c, MSG_TYPE_ERROR,
                                            Undefined),
               << >>, key, FALSE)
          /\ UNCHANGED <<connections, timers>>
     ELSE IF isValidKey(key)
     THEN /\ connections' = [connections EXCEPT ![c].isAuthenticated = TRUE]
          /\ Handle("auth", c, raw, "done",
               sendMessage(readyState, c, "auth_result", raw.id, "", TRUE),
               << >>, key, FALSE)
          /\ UNCHANGED timers
     ELSE /\ Handle("auth", c, raw, "done",
               sendMessage(readyState, c, "auth_result", raw.id, "", FALSE),
               << >>, key, FALSE)
          /\ timers' = timers \cup {[conn |-> c, due |-> now + AUTH_FAIL_DELAY]}
          /\ connections' = [connections EXCEPT ![c].isAuthenticated = FALSE]
  /\ UNCHANGED <<now, nextPing, ticks, readyState, probe,
                 relay, codec, classified, completions>>

\* AuthMessageHandler.handle with validateAuthentication
AuthFrame(c, raw, hasAuth, key) ==
  /\ Receives(c)
  /\ IsKind(raw, "auth")
  /\ IF ~hasAuth
     THEN \* auth.apiKey of an absent auth object throws
          /\ key = << >>
          /\ Handle("authThrow", c, raw, "done",
               handleMessageProcessingError(readyState, c, MSG_TYPE_ERROR,
                                            Undefined),
               << >>, key, FALSE)
          /\ UNCHANGED <<connections, timers>>
     ELSE IF isValidKey(key)
     THEN /\ connections' = [connections EXCEPT ![c].isAuthenticated = TRUE]
          /\ Handle("auth", c, raw, "done",
               sendMessage(readyState, c, "auth_result", raw.id, "", TRUE),
               << >>, key, FALSE)
          /\ UNCHANGED timers
     ELSE /\ Handle("auth", c, raw, "done",
               sendMessage(readyState, c, "auth_result", raw.id, "", FALSE),
               << >>, key, FALSE)
          /\ timers' = timers \cup {[conn |-> c, due |-> now + AUTH_FAIL_DELAY]}
          /\ UNCHANGED connections
  /\ UNCHANGED <<now, nextPing, ticks, readyState, probe,
                 relay, codec, classified, completions>>

\* a callback that does not wait for its delay, which C7 must tell from
\* the callback of the timer
AuthTimerFire_Early(t) ==
  /\ t \in timers
  /\ timers' = timers \ {t}
  /\ readyState' = Terminate(readyState, t.conn)
  /\ step' = NoStep
  /\ UNCHANGED <<now, nextPing, ticks, connections, requests, handled, probe,
                 relay, codec, classified, completions>>

\* a callback that spares a session authenticated in the meantime, which
\* C35 must tell from the callback of the timer
AuthTimerFire_Spares(t) ==
  /\ t \in timers
  /\ t.due <= now
  /\ timers' = timers \ {t}
  /\ readyState' =
       IF t.conn \in DOMAIN connections
          /\ connections[t.conn].isAuthenticated
       THEN readyState
       ELSE Terminate(readyState, t.conn)
  /\ step' = NoStep
  /\ UNCHANGED <<now, nextPing, ticks, connections, requests, handled, probe,
                 relay, codec, classified, completions>>

\* the setTimeout callback of AuthMessageHandler.handle
AuthTimerFire(t) ==
  /\ t \in timers
  /\ t.due <= now
  /\ timers' = timers \ {t}
  /\ readyState' = Terminate(readyState, t.conn)
  /\ step' = NoStep
  /\ UNCHANGED <<now, nextPing, ticks, connections, requests, handled, probe,
                 relay, codec, classified, completions>>

\* a ping handler that leaves pendingPong as it is, which C23 must tell
\* from the handler
PingFrame_KeepsPending(c, raw) ==
  /\ Receives(c)
  /\ IsKind(raw, "ping")
  /\ connections' = [connections EXCEPT ![c].lastPing = now]
  /\ probe' = [probe EXCEPT ![c] = NoProbe]
  /\ Handle("ping", c, raw, "done",
            withData(sendMessage(readyState, c, "pong", raw.id, "", FALSE),
                     [NoData EXCEPT !.timestamp = now]),
            << >>, << >>, FALSE)
  /\ UNCHANGED <<now, nextPing, ticks, readyState, timers,
                 relay, codec, classified, completions>>

\* PingMessageHandler.handle
PingFrame(c, raw) ==
  /\ Receives(c)
  /\ IsKind(raw, "ping")
  /\ connections' = [connections EXCEPT ![c].lastPing = now,
                                        ![c].pendingPong = FALSE]
  /\ probe' = [probe EXCEPT ![c] = NoProbe]
  /\ Handle("ping", c, raw, "done",
            withData(sendMessage(readyState, c, "pong", raw.id, "", FALSE),
                     [NoData EXCEPT !.timestamp = now]),
            << >>, << >>, FALSE)
  /\ UNCHANGED <<now, nextPing, ticks, readyState, timers,
                 relay, codec, classified, completions>>

\* the calls inside sendMessage that may throw on an open socket
Throwers == {"JSON.stringify", "socket.send"}

\* the outcomes of a backend call: success, or failure with err.message
Outcomes ==
  {[ok |-> TRUE, cause |-> << >>]} \cup {[ok |-> FALSE, cause |-> m] : m \in Causes}

\* the message lists of chat_completion frames: the contents of their
\* messages, oldest first; the handlers read the last message only
MessageLists == {<<"q1", "q2">>}

\* the candidate lists returned by the suggestion analysis
SuggestionLists ==
  { << >>,
    << [tool |-> "create_post", confidence |-> 95] >>,
    << [tool |-> "search_posts", confidence |-> 90] >>,
    << [tool |-> "create_post", confidence |-> 50],
       [tool |-> "search_posts", confidence |-> 89] >>,
    << [tool |-> "create_post", confidence |-> 90],
       [tool |-> "update_post", confidence |-> 95] >> }

\* ToolCallMessageHandler.handle and ToolSelectionMessageHandler.handle,
\* up to the await of mcpClient.callTool
toolHandle(op, c, raw) ==
  IF ~checkAuthentication(c)
  THEN Handle(op, c, raw, "done", notAuthenticated(c, raw.id), << >>,
              << >>, FALSE)
  ELSE Handle(op, c, raw, "callTool",
              sendMessage(readyState, c, "status", raw.id, "", FALSE),
              << "callTool" >>, << >>, FALSE)

ToolCallFrame(c, raw) ==
  /\ Receives(c)
  /\ IsKind(raw, "tool_call")
  /\ toolHandle("tool_call", c, raw)
  /\ UNCHANGED <<now, nextPing, ticks, connections, readyState, timers,
                 probe, relay, codec, classified, completions>>

\* a handler that looks for the request named by originalMessageId, finds
\* none, the program keeping no table of requests, and refuses, which C38
\* must tell from the handler
ToolSelectionFrame_Refuses(c, raw) ==
  /\ Receives(c)
  /\ IsKind(raw, "tool_selection")
  /\ Handle("tool_selection", c, raw, "done",
            IF checkAuthentication(c)
            THEN sendErrorMessage(readyState, c, raw.id, "INVALID_PARAMS")
            ELSE notAuthenticated(c, raw.id),
            << >>, << >>, FALSE)
  /\ UNCHANGED <<now, nextPing, ticks, connections, readyState, timers,
                 probe, relay, codec, classified, completions>>

\* ToolSelectionMessageHandler.handle, up to the await of
\* mcpClient.callTool
ToolSelectionFrame(c, raw) ==
  /\ Receives(c)
  /\ IsKind(raw, "tool_selection")
  /\ toolHandle("tool_selection", c, raw)
  /\ UNCHANGED <<now, nextPing, ticks, connections, readyState, timers,
                 probe, relay, codec, classified, completions>>

\* the envelope of a failed call: its code comes from the classifier
failure(r, cause, details) ==
  sendErrorMessage(readyState, requests[r].conn, requests[r].id,
                   errorCodeOf[cause, details])

\* the envelope of a successful call
result(r, type) ==
  sendMessage(readyState, requests[r].conn, type, requests[r].id, "", TRUE)

\* a handler that reports no failure of the tool, which C3 must tell from
\* the handler
CallToolDone_Silent(r, out) ==
  /\ Awaiting(r, "callTool")
  /\ Continue("callToolDone", r, "done",
              IF out.ok THEN result(r, "tool_result") ELSE << >>, << >>)
  /\ UNCHANGED <<now, nextPing, ticks, connections, readyState, timers,
                 probe, relay, codec, classified, completions>>

\* ToolCallMessageHandler.handle and ToolSelectionMessageHandler.handle,
\* after mcpClient.callTool has answered
CallToolDone(r, out) ==
  /\ Awaiting(r, "callTool")
  /\ IF out.ok
     THEN Continue("callToolDone", r, "done", result(r, "tool_result"), << >>)
     ELSE Continue("callToolDone", r, "done",
                   failure(r, out.cause, MSG_UNKNOWN_ERROR), << >>)
  /\ UNCHANGED <<now, nextPing, ticks, connections, readyState, timers,
                 probe, relay, codec, classified, completions>>

\* ToolCallMessageHandler.handle and ToolSelectionMessageHandler.handle,
\* after mcpClient.callTool has answered with success, when thrower throws
\* inside the sendMessage of the tool_result on an open socket: the catch
\* of sendMessage logs the error and returns false, the handler returns
CallToolDoneThrown(r, thrower) ==
  /\ Awaiting(r, "callTool")
  /\ readyState[requests[r].conn] = "OPEN"
  /\ Continue(thrower, r, "done", << >>, << >>)
  /\ UNCHANGED <<now, nextPing, ticks, connections, readyState, timers,
                 probe, relay, codec, classified, completions>>

\* NaturalLanguageSearchMessageHandler.handle, up to its first await
SearchFrame(c, raw, enhance) ==
  /\ Receives(c)
  /\ IsKind(raw, "natural_language_search")
  /\ IF ~checkAuthentication(c)
     THEN Handle("search", c, raw, "done", notAuthenticated(c, raw.id),
                 << >>, << >>, FALSE)
     ELSE Handle("search", c, raw, IF enhance THEN "enhance" ELSE "search",
                 sendMessage(readyState, c, "status", raw.id, "", FALSE),
                 << IF enhance THEN "enhanceSearchParams" ELSE "search" >>,
                 << >>, FALSE)
  /\ UNCHANGED <<now, nextPing, ticks, connections, readyState, timers,
                 probe, relay, codec, classified, completions>>

\* after algoliaSearchService.enhanceSearchParams, which never throws
EnhanceDone(r) ==
  /\ Awaiting(r, "enhance")
  /\ Continue("enhanceDone", r, "searchTool", << >>, << "callTool" >>)
  /\ UNCHANGED <<now, nextPing, ticks, connections, readyState, timers,
                 probe, relay, codec, classified, completions>>

\* after mcpClient.callTool of the enhanced search; a failure is thrown as
\* an Error and caught by the handler
SearchToolDone(r, out) ==
  /\ Awaiting(r, "searchTool")
  /\ IF out.ok
     THEN Continue("searchToolDone", r, "done",
                   result(r, "natural_language_search_result"), << >>)
     ELSE Continue("searchToolDone", r, "done",
                   failure(r, out.cause, << >>), << >>)
  /\ UNCHANGED <<now, nextPing, ticks, connections, readyState, timers,
                 probe, relay, codec, classified, completions>>

\* after algoliaSearchService.search; its details are err.stack, which
\* begins with the message
SearchDone(r, out) ==
  /\ Awaiting(r, "search")
  /\ IF out.ok
     THEN Continue("searchDone", r, "done",
                   result(r, "natural_language_search_result"), << >>)
     ELSE Continue("searchDone", r, "done",
                   failure(r, out.cause, out.cause), << >>)
  /\ UNCHANGED <<now, nextPing, ticks, connections, readyState, timers,
                 probe, relay, codec, classified, completions>>

\* a handler that takes every completion through the tool orchestrator,
\* streamed or not, which C40 must tell from the handler
ChatFrame_AlwaysTools(c, raw, hasMessages, stream, messages) ==
  /\ Receives(c)
  /\ IsKind(raw, "chat_completion")
  /\ hasMessages <=> messages # << >>
  /\ IF ~checkAuthentication(c)
     THEN Handle("chat", c, raw, "done", notAuthenticated(c, raw.id),
                 << >>, << >>, stream)
     ELSE IF ~hasMessages
     THEN \* messages.length of absent messages throws before the try
          Handle("chatThrow", c, raw, "done",
                 handleMessageProcessingError(readyState, c, MSG_TYPE_ERROR,
                                              Undefined),
                 << >>, << >>, stream)
     ELSE HandleMessages("chat", c, raw,
                 "formatTools",
                 sendMessage(readyState, c, "status", raw.id, "", FALSE),
                 << "formatToolsForDeepSeek" >>,
                 << >>, stream, messages)
  /\ UNCHANGED <<now, nextPing, ticks, connections, readyState, timers,
                 probe, relay, codec, classified, completions>>

\* ChatCompletionMessageHandler.handle, up to its first await
ChatFrame(c, raw, hasMessages, stream, messages) ==
  /\ Receives(c)
  /\ IsKind(raw, "chat_completion")
  /\ hasMessages <=> messages # << >>
  /\ IF ~checkAuthentication(c)
     THEN Handle("chat", c, raw, "done", notAuthenticated(c, raw.id),
                 << >>, << >>, stream)
     ELSE IF ~hasMessages
     THEN \* messages.length of absent messages throws before the try
          Handle("chatThrow", c, raw, "done",
                 handleMessageProcessingError(readyState, c, MSG_TYPE_ERROR,
                                              Undefined),
                 << >>, << >>, stream)
     ELSE HandleMessages("chat", c, raw,
                 IF stream THEN "streaming" ELSE "formatTools",
                 sendMessage(readyState, c, "status", raw.id, "", FALSE),
                 << IF stream THEN "createChatCompletionStream"
                    ELSE "formatToolsForDeepSeek" >>,
                 << >>, stream, messages)
  /\ UNCHANGED <<now, nextPing, ticks, connections, readyState, timers,
                 probe, relay, codec, classified, completions>>

\* handleNonStreamingChatCompletion after mcpClient.formatToolsForDeepSeek,
\* which never throws
FormatToolsDone(r) ==
  /\ Awaiting(r, "formatTools")
  /\ Continue("formatToolsDone", r, "completion", << >>,
              << "createChatCompletionWithTools" >>)
  /\ UNCHANGED <<now, nextPing, ticks, connections, readyState, timers,
                 probe, relay, codec, classified, completions>>

\* a choice of the highest candidate whatever its confidence, which C17
\* must tell from the choice above the threshold
highConfidenceTool_Any(toolSuggestions) ==
  IF toolSuggestions = << >> THEN 0
  ELSE CHOOSE i \in 1..Len(toolSuggestions) :
         \A j \in 1..Len(toolSuggestions) :
           toolSuggestions[j].confidence <= toolSuggestions[i].confidence

\* a choice of the first candidate at or above the threshold, which C16
\* must tell from the choice of the highest
highConfidenceTool_First(toolSuggestions) ==
  LET high == {i \in 1..Len(toolSuggestions) :
                 toolSuggestions[i].confidence >= AUTO_EXECUTE_THRESHOLD}
  IN IF high = {} THEN 0 ELSE CHOOSE i \in high : \A j \in high : i <= j

\* handleToolSuggestions: the index of the candidate to auto-execute, 0 if
\* none; filter keeps the order and sort is stable
highConfidenceTool(toolSuggestions) ==
  LET high == {i \in 1..Len(toolSuggestions) :
                 toolSuggestions[i].confidence >= AUTO_EXECUTE_THRESHOLD}
  IN IF high = {} THEN 0
     ELSE CHOOSE i \in high :
            \A j \in high :
              \/ toolSuggestions[j].confidence < toolSuggestions[i].confidence
              \/ toolSuggestions[j].confidence = toolSuggestions[i].confidence
                 /\ i <= j

\* a payload that quotes the first message of the request, which C18 must
\* tell from the last
suggestionsData_First(toolSuggestions, messages) ==
  [NoData EXCEPT !.suggestions = toolSuggestions,
                 !.originalQuery = messages[1]]

\* handleToolSuggestions: the payload of the tool_suggestions envelope
suggestionsData(toolSuggestions, messages) ==
  [NoData EXCEPT !.suggestions = toolSuggestions,
                 !.originalQuery = messages[Len(messages)]]

\* a handler that hands every successful completion to
\* handleToolSuggestions, empty candidate list or not, which C19 must tell
\* from the one that tests the list first
CompletionDone_Suggests(r, out, toolSuggestions) ==
  /\ Awaiting(r, "completion")
  /\ ~out.ok => toolSuggestions = << >>
  /\ LET h == highConfidenceTool(toolSuggestions)
         messages == requests[r].messages
     IN IF ~out.ok
        THEN Continue("completionDone", r, "done",
                      failure(r, out.cause, MSG_UNKNOWN_ERROR), << >>)
        ELSE IF h = 0
        THEN ContinueAuto("completionDone", r, "done",
                          withData(result(r, "tool_suggestions"),
                                   suggestionsData(toolSuggestions, messages)),
                          << >>, toolSuggestions, NoTool)
        ELSE IF toolSuggestions[h].tool = "search_posts"
        THEN ContinueAuto("completionDone", r, "autoSearch", << >>,
                          << "search" >>, toolSuggestions, toolSuggestions[h])
        ELSE ContinueAuto("completionDone", r, "autoTool", << >>,
                          << "callTool" >>, toolSuggestions,
                          toolSuggestions[h])
  /\ UNCHANGED <<now, nextPing, ticks, connections, readyState, timers,
                 probe, relay, codec, classified, completions>>

\* handleNonStreamingChatCompletion after createChatCompletionWithTools,
\* with handleToolSuggestions
CompletionDone(r, out, toolSuggestions) ==
  /\ Awaiting(r, "completion")
  /\ ~out.ok => toolSuggestions = << >>
  /\ LET h == highConfidenceTool(toolSuggestions)
         messages == requests[r].messages
     IN IF ~out.ok
        THEN Continue("completionDone", r, "done",
                      failure(r, out.cause, MSG_UNKNOWN_ERROR), << >>)
        ELSE IF toolSuggestions = << >>
        THEN ContinueAuto("completionDone", r, "done",
                          result(r, "chat_completion_result"), << >>,
                          toolSuggestions, NoTool)
        ELSE IF h = 0
        THEN ContinueAuto("completionDone", r, "done",
                          withData(result(r, "tool_suggestions"),
                                   suggestionsData(toolSuggestions, messages)),
                          << >>, toolSuggestions, NoTool)
        ELSE IF toolSuggestions[h].tool = "search_posts"
        THEN ContinueAuto("completionDone", r, "autoSearch", << >>,
                          << "search" >>, toolSuggestions, toolSuggestions[h])
        ELSE ContinueAuto("completionDone", r, "autoTool", << >>,
                          << "callTool" >>, toolSuggestions,
                          toolSuggestions[h])
  /\ UNCHANGED <<now, nextPing, ticks, connections, readyState, timers,
                 probe, relay, codec, classified, completions>>

\* handleAutoSearchPosts after algoliaSearchService.search
AutoSearchDone(r, out) ==
  /\ Awaiting(r, "autoSearch")
  /\ IF out.ok
     THEN Continue("autoSearchDone", r, "done",
                   result(r, "natural_language_search_result"), << >>)
     ELSE Continue("autoSearchDone", r, "done",
                   failure(r, out.cause, out.cause), << >>)
  /\ UNCHANGED <<now, nextPing, ticks, connections, readyState, timers,
                 probe, relay, codec, classified, completions>>

\* handleAutoExecuteTool after mcpClient.callTool
AutoToolDone(r, out) ==
  /\ Awaiting(r, "autoTool")
  /\ IF out.ok
     THEN Continue("autoToolDone", r, "done",
                   withData(result(r, "tool_result"),
                            [NoData EXCEPT !.tool = requests[r].auto.tool]),
                   << >>)
     ELSE Continue("autoToolDone", r, "done",
                   failure(r, out.cause, MSG_UNKNOWN_ERROR), << >>)
  /\ UNCHANGED <<now, nextPing, ticks, connections, readyState, timers,
                 probe, relay, codec, classified, completions>>

\* handleStreamingChatCompletion: the listener of 'data'
StreamData(r) ==
  /\ Awaiting(r, "streaming")
  /\ requests[r].chunks < MaxChunks
  /\ requests' = [requests EXCEPT ![r].chunks = @ + 1]
  /\ step' = [Event("streamData", requests[r].conn, {}) EXCEPT
                !.n = r, !.type = requests[r].type, !.id = requests[r].id,
                !.decoded = TRUE, !.authed = TRUE, !.stream = TRUE,
                !.open = readyState[requests[r].conn] = "OPEN",
                !.before = requests[r].terminals,
                !.sent = sendMessage(readyState, requests[r].conn,
                                     "chat_completion_chunk", requests[r].id,
                                     "", FALSE)]
  /\ UNCHANGED handled
  /\ UNCHANGED <<now, nextPing, ticks, connections, readyState, timers,
                 probe, relay, codec, classified, completions>>

\* a backend stream that survives its error and may fail again, which C4
\* must tell from the stream
StreamError_Again(r, cause) ==
  /\ Awaiting(r, "streaming")
  /\ Continue("streamError", r, "streaming", failure(r, cause, << >>), << >>)
  /\ UNCHANGED <<now, nextPing, ticks, connections, readyState, timers,
                 probe, relay, codec, classified, completions>>

\* handleStreamingChatCompletion: the listener of 'error'; the backend
\* stream is destroyed by its error
StreamError(r, cause) ==
  /\ Awaiting(r, "streaming")
  /\ Continue("streamError", r, "done", failure(r, cause, << >>), << >>)
  /\ UNCHANGED <<now, nextPing, ticks, connections, readyState, timers,
                 probe, relay, codec, classified, completions>>

\* handleStreamingChatCompletion: the listener of 'end', which only logs
StreamEnd(r) ==
  /\ Awaiting(r, "streaming")
  /\ Continue("streamEnd", r, "done", << >>, << >>)
  /\ UNCHANGED <<now, nextPing, ticks, connections, readyState, timers,
                 probe, relay, codec, classified, completions>>

(***************************************************************************)
(* Heartbeat monitor and time                                              *)
(***************************************************************************)
\* a monitor that never finds a session timed out, which C8 must tell from
\* the test of the interval callback
timedOut_Never(c) == FALSE

\* a monitor that removes every session with a pending pong, which C37
\* must tell from the test of the interval callback
timedOut_Pending(c) == connections[c].pendingPong

\* pingConnections: the connection has a pending pong that timed out
timedOut(c) ==
  /\ connections[c].pendingPong
  /\ now - connections[c].lastPing > PING_TIMEOUT

\* a monitor whose catch of a throwing socket.ping() only logs, which C27
\* must tell from pingConnections.
\* failing: the connections whose socket.ping() throws; only a socket that
\* is no longer open can make it throw.
pingConnections_KeepsFailed(failing) ==
  /\ now = nextPing
  /\ failing \subseteq {c \in DOMAIN connections : readyState[c] # "OPEN"}
  /\ LET pingThrows(c) == ~connections[c].pendingPong /\ c \in failing
         removed == {c \in DOMAIN connections : timedOut(c)}
     IN /\ connections' =
             [c \in DOMAIN connections \ removed |->
                [connections[c] EXCEPT
                   !.pendingPong = @ \/ ~pingThrows(c)]]
        /\ readyState' =
             [c \in ConnIds |->
                IF c \in removed THEN Terminate(readyState, c)[c]
                ELSE readyState[c]]
        /\ step' = [Event("pingConnections", 0, removed) EXCEPT
                      !.failed = {c \in DOMAIN connections : pingThrows(c)}]
        /\ probe' =
             [c \in ConnIds |->
                IF /\ c \in DOMAIN connections \ removed
                   /\ ~connections[c].pendingPong
                   /\ readyState[c] = "OPEN"
                THEN [sentAt |-> now, acked |-> FALSE]
                ELSE probe[c]]
  /\ nextPing' = now + PING_INTERVAL
  /\ ticks' = ticks + 1
  /\ UNCHANGED <<now, timers, requests, handled,
                 relay, codec, classified, completions>>

\* ConnectionManager.pingConnections, the callback of setInterval.
\* failing: the connections whose socket.ping() throws; only a socket that
\* is no longer open can make it throw.
pingConnections(failing) ==
  /\ now = nextPing
  /\ failing \subseteq {c \in DOMAIN connections : readyState[c] # "OPEN"}
  /\ LET pingThrows(c) == ~connections[c].pendingPong /\ c \in failing
         removed == {c \in DOMAIN connections : timedOut(c) \/ pingThrows(c)}
     IN /\ connections' =
             [c \in DOMAIN connections \ removed |->
                [connections[c] EXCEPT !.pendingPong = TRUE]]
        /\ readyState' =
             [c \in ConnIds |->
                IF c \in removed THEN Terminate(readyState, c)[c]
                ELSE readyState[c]]
        /\ step' = [Event("pingConnections", 0, removed) EXCEPT
                      !.failed = {c \in DOMAIN connections : pingThrows(c)}]
        /\ probe' =
             [c \in ConnIds |->
                IF /\ c \in DOMAIN connections \ removed
                   /\ ~connections[c].pendingPong
                   /\ readyState[c] = "OPEN"
                THEN [sentAt |-> now, acked |-> FALSE]
                ELSE probe[c]]
  /\ nextPing' = now + PING_INTERVAL
  /\ ticks' = ticks + 1
  /\ UNCHANGED <<now, timers, requests, handled,
                 relay, codec, classified, completions>>

\* the peer answers the outstanding transport-level probe with a pong
\* frame; addConnection registers no listener of 'pong'
PongFrame(c) ==
  /\ readyState[c] = "OPEN"
  /\ probe[c].sentAt >= 0
  /\ ~probe[c].acked
  /\ probe' = [probe EXCEPT ![c].acked = TRUE]
  /\ step' = NoStep
  /\ UNCHANGED <<now, nextPing, ticks, connections, readyState, timers,
                 requests, handled, relay, codec, classified, completions>>

\* what a behaviour has used of its bound
Load == Cardinality({c \in ConnIds : readyState[c] # "NONE"}) + handled

Room(limit) == Load < limit

\* the deadlines of the pending timers; the interval is one of them while
\* it may still fire
Deadlines(limit) ==
  {t.due : t \in timers} \cup (IF ticks < limit THEN {nextPing} ELSE {})

NextDeadline(limit) ==
  CHOOSE d \in Deadlines(limit) : \A e \in Deadlines(limit) : d <= e

\* time passes up to the next deadline; a due timer fires first
AdvanceToDeadline(limit) ==
  /\ Deadlines(limit) # {}
  /\ NextDeadline(limit) > now
  /\ now' = NextDeadline(limit)
  /\ step' = NoStep
  /\ UNCHANGED <<nextPing, ticks, connections, readyState, timers, requests,
                 handled, probe, relay, codec, classified, completions>>

(***************************************************************************)
(* The gateway                                                             *)
(***************************************************************************)
Accept == \E c \in ConnIds : addConnection(c)

Lifecycle ==
  \/ \E c \in ConnIds : PeerClose(c)
  \/ \E c \in ConnIds : OnClose(c)
  \/ \E c \in ConnIds : OnError(c)
  \/ \E c \in ConnIds : UnknownConnection(c)

Frames ==
  \/ \E c \in ConnIds, raw \in RawFrames : MalformedFrame(c, raw)
  \/ \E c \in ConnIds, raw \in RawFrames : UnknownFrame(c, raw)
  \/ \E c \in ConnIds, raw \in RawFrames, hasAuth \in BOOLEAN,
        key \in Credentials : AuthFrame(c, raw, hasAuth, key)
  \/ \E c \in ConnIds, raw \in RawFrames : PingFrame(c, raw)
  \/ \E c \in ConnIds, raw \in RawFrames : ToolCallFrame(c, raw)
  \/ \E c \in ConnIds, raw \in RawFrames : ToolSelectionFrame(c, raw)
  \/ \E c \in ConnIds, raw \in RawFrames, enhance \in BOOLEAN :
        SearchFrame(c, raw, enhance)
  \/ \E c \in ConnIds, raw \in RawFrames, hasMessages \in BOOLEAN,
        stream \in BOOLEAN, messages \in MessageLists \cup {<< >>} :
        ChatFrame(c, raw, hasMessages, stream, messages)

Backends ==
  \/ \E r \in DOMAIN requests, out \in Outcomes : CallToolDone(r, out)
  \/ \E r \in DOMAIN requests : EnhanceDone(r)
  \/ \E r \in DOMAIN requests, out \in Outcomes : SearchToolDone(r, out)
  \/ \E r \in DOMAIN requests, out \in Outcomes : SearchDone(r, out)
  \/ \E r \in DOMAIN requests : FormatToolsDone(r)
  \/ \E r \in DOMAIN requests, out \in Outcomes, sl \in SuggestionLists :
        CompletionDone(r, out, sl)
  \/ \E r \in DOMAIN requests, out \in Outcomes : AutoSearchDone(r, out)
  \/ \E r \in DOMAIN requests, out \in Outcomes : AutoToolDone(r, out)
  \/ \E r \in DOMAIN requests : StreamData(r)
  \/ \E r \in DOMAIN requests, cause \in Causes : StreamError(r, cause)
  \/ \E r \in DOMAIN requests : StreamEnd(r)

\* the timers of the failed authentications
Timers ==
  \/ \E t \in timers : AuthTimerFire(t)
  \/ AdvanceToDeadline(0)

\* the router with its handlers and the sessions they serve
Next ==
  \/ Room(MaxLoad) /\ Accept
  \/ Room(MaxLoad) /\ Frames
  \/ Lifecycle
  \/ Backends
  \/ \E r \in DOMAIN requests, thrower \in Throwers :
        CallToolDoneThrown(r, thrower)
  \/ Timers

Spec == Init /\ [][Next]_vars

(***************************************************************************)
(* The heartbeat monitor with the sessions it watches: the frames that     *)
(* touch the heartbeat or the flag, and the pong frames of the peer.        *)
(***************************************************************************)
FramesHB ==
  \/ \E c \in ConnIds, raw \in RawFrames, hasAuth \in BOOLEAN,
        key \in Credentials : AuthFrame(c, raw, hasAuth, key)
  \/ \E c \in ConnIds, raw \in RawFrames : PingFrame(c, raw)

TimersHB ==
  \/ \E t \in timers : AuthTimerFire(t)
  \/ AdvanceToDeadline(MaxTicksHB)

NextHB ==
  \/ Room(MaxLoadHB) /\ Accept
  \/ Room(MaxLoadHB) /\ FramesHB
  \/ ticks < MaxTicksHB /\
       (\E failing \in SUBSET DOMAIN connections : pingConnections(failing))
      
  \/ \E c \in ConnIds : PongFrame(c)
  \/ Lifecycle
  \/ TimersHB

SpecHB == Init /\ [][NextHB]_vars

(***************************************************************************)
(* The router under the scheduling of its runtime: a backend call ends     *)
(* (every client has a timeout), a due timer fires, the close event of a   *)
(* terminated socket is delivered, and time passes.                        *)
(***************************************************************************)
NextLive ==
  \/ Room(MaxLoadLive) /\ Accept
  \/ Room(MaxLoadLive) /\ Frames
  \/ Lifecycle
  \/ Backends
  \/ Timers

Fairness ==
  /\ WF_vars(Backends)
  /\ WF_vars(\E t \in timers : AuthTimerFire(t))
  /\ WF_vars(\E c \in ConnIds : OnClose(c))
  /\ WF_vars(AdvanceToDeadline(0))

SpecLive == Init /\ [][NextLive]_vars /\ Fairness

(***************************************************************************)
(* The whole gateway: the router, its handlers and the heartbeat monitor   *)
(* over the same sessions.  A pong frame of the peer is no step of it:     *)
(* addConnection registers no listener of 'pong'.                          *)
(***************************************************************************)
TimersAll ==
  \/ \E t \in timers : AuthTimerFire(t)
  \/ AdvanceToDeadline(MaxTicksAll)

NextAll ==
  \/ Room(MaxLoadAll) /\ Accept
  \/ Room(MaxLoadAll) /\ Frames
  \/ ticks < MaxTicksAll /\
       (\E failing \in SUBSET DOMAIN connections : pingConnections(failing))
      
  \/ Lifecycle
  \/ Backends
  \/ TimersAll

SpecAll == Init /\ [][NextAll]_vars

(***************************************************************************)
(* The stream relay of DeepSeekClient.createChatCompletionStream: the      *)
(* backend response arrives as Buffers cut at any byte, each is decoded    *)
(* on its own and appended to a text buffer, and the complete fragments    *)
(* of the buffer are parsed and emitted.  Text is a sequence of            *)
(* characters, a Buffer a sequence of bytes; an ASCII byte is written as   *)
(* its character.                                                          *)
(***************************************************************************)
LF == "\n"

\* the two bytes of the UTF-8 encoding of U+00E9
LeadByte == "C3"
ContinuationByte == "A9"

\* the character U+00E9 and the replacement character U+FFFD
EAcute == "U+00E9"
Replacement == "U+FFFD"

\* Buffer.toString(): UTF-8 decoding of one Buffer on its own; a lead byte
\* without its continuation byte and a continuation byte without its lead
\* byte decode to U+FFFD
RECURSIVE toString(_)
toString(chunk) ==
  IF chunk = << >> THEN << >>
  ELSE IF chunk[1] = LeadByte
  THEN IF Len(chunk) >= 2 /\ chunk[2] = ContinuationByte
       THEN << EAcute >> \o toString(SubSeq(chunk, 3, Len(chunk)))
       ELSE << Replacement >> \o toString(Tail(chunk))
  ELSE IF chunk[1] = ContinuationByte
  THEN << Replacement >> \o toString(Tail(chunk))
  ELSE << chunk[1] >> \o toString(Tail(chunk))

\* String.prototype.split('\n\n'): the pieces between the occurrences of
\* the delimiter, found from the left
RECURSIVE split(_)
split(text) ==
  LET at == {i \in 1..(Len(text) - 1) : text[i] = LF /\ text[i + 1] = LF}
  IN IF at = {} THEN << text >>
     ELSE LET i == CHOOSE j \in at : \A k \in at : j <= k
          IN << SubSeq(text, 1, i - 1) >>
               \o split(SubSeq(text, i + 2, Len(text)))

WhiteSpace == {" ", LF}

\* String.prototype.trim()
trim(text) ==
  LET ink == {i \in 1..Len(text) : text[i] \notin WhiteSpace}
  IN IF ink = {} THEN << >>
     ELSE SubSeq(text, CHOOSE i \in ink : \A k \in ink : i <= k,
                       CHOOSE j \in ink : \A k \in ink : k <= j)

\* String.prototype.startsWith
startsWith(text, prefix) ==
  Len(text) >= Len(prefix) /\ SubSeq(text, 1, Len(prefix)) = prefix

\* String.prototype.substring(start), start counted from 0
substring(text, start) == SubSeq(text, start + 1, Len(text))

\* the marker 'data: ' and the end-of-stream payload '[DONE]'
Marker == << "d", "a", "t", "a", ":", " " >>
Done == << "[", "D", "O", "N", "E", "]" >>

\* JSON.parse over the characters of the streams: a string, a number of
\* digits 1, or an array (of at most one element, there being no comma);
\* anything else is a SyntaxError.  The value is given by its canonical
\* text.
RECURSIVE JSONparse(_)
JSONparse(data) ==
  LET t == trim(data)
      n == Len(t)
      SyntaxError == [ok |-> FALSE, value |-> << >>]
  IN IF n = 0 THEN SyntaxError
     ELSE IF t[1] = "\""
     THEN IF /\ n >= 2
             /\ t[n] = "\""
             /\ \A i \in 2..(n - 1) : t[i] \notin {"\"", LF}
          THEN [ok |-> TRUE, value |-> t]
          ELSE SyntaxError
     ELSE IF \A i \in 1..n : t[i] = "1"
     THEN [ok |-> TRUE, value |-> t]
     ELSE IF n >= 2 /\ t[1] = "[" /\ t[n] = "]"
     THEN LET inner == trim(SubSeq(t, 2, n - 1))
              element == JSONparse(inner)
          IN IF inner = << >> THEN [ok |-> TRUE, value |-> << "[", "]" >>]
             ELSE IF element.ok
             THEN [ok |-> TRUE,
                   value |-> << "[" >> \o element.value \o << "]" >>]
             ELSE SyntaxError
     ELSE SyntaxError

\* processSSEChunk, the body of its loop: what the piece lines[i] makes
\* the emitter emit
emitOf(piece) ==
  LET line == trim(piece)
      data == substring(line, 6)
  IN IF ~startsWith(line, Marker) THEN << >>
     ELSE IF data = Done THEN << >>
     ELSE IF JSONparse(data).ok THEN << JSONparse(data).value >>
     ELSE << >>

RECURSIVE emitAll(_, _)
emitAll(lines, processUntil) ==
  IF processUntil = 0 THEN << >>
  ELSE emitAll(lines, processUntil - 1) \o emitOf(lines[processUntil])

\* a processSSEChunk that hands back the whole buffer, which C21 must
\* tell from the one that hands back the text after the last delimiter
processSSEChunk_KeepAll(buffer, isEnd) ==
  LET lines == split(buffer)
      processUntil == IF isEnd THEN Len(lines) ELSE Len(lines) - 1
  IN [emitted |-> emitAll(lines, processUntil),
      rest |-> IF isEnd THEN << >> ELSE buffer]

\* processSSEChunk: the 'data' events emitted and the text returned
processSSEChunk(buffer, isEnd) ==
  LET lines == split(buffer)
      processUntil == IF isEnd THEN Len(lines) ELSE Len(lines) - 1
  IN [emitted |-> emitAll(lines, processUntil),
      rest |-> IF isEnd THEN << >> ELSE lines[Len(lines)]]

\* the payloads of the fragments the backend sends: a number, a string
\* with a two-byte character, the end-of-stream marker
Payloads ==
  { << "1" >>, << "\"", LeadByte, ContinuationByte, "\"" >>, Done }

\* the backend response streams: up to MaxFrames fragments 'data: payload'
\* each followed by the delimiter, the last one with or without it
RECURSIVE Framed(_)
Framed(payloads) ==
  IF payloads = << >> THEN << >>
  ELSE Marker \o Head(payloads) \o << LF, LF >> \o Framed(Tail(payloads))

Streams ==
  LET lists == UNION {[1..n -> Payloads] : n \in 1..MaxFrames}
  IN {[payloads |-> l, bytes |-> Framed(l)] : l \in lists}
       \cup {[payloads |-> l,
               bytes |-> SubSeq(Framed(l), 1, Len(Framed(l)) - 2)] :
                l \in lists}

\* the .then of the request: the response stream is there, buffer = ''
InitRelay ==
  /\ Gateway0
  /\ \E stream \in Streams :
       relay = [phase |-> "open", payloads |-> stream.payloads,
                bytes |-> stream.bytes, pos |-> 0, buffer |-> << >>,
                emitted |-> << >>, events |-> << >>]
  /\ codec = NoCodec
  /\ classified = NoFailure
  /\ completions = << >>

\* response.data.on('data'): the next n bytes arrive as one Buffer
responseData(n) ==
  /\ relay.phase = "open"
  /\ relay.pos + n <= Len(relay.bytes)
  /\ LET chunk == SubSeq(relay.bytes, relay.pos + 1, relay.pos + n)
         chunkStr == toString(chunk)
         processed == processSSEChunk(relay.buffer \o chunkStr, FALSE)
     IN relay' = [relay EXCEPT
                    !.pos = @ + n,
                    !.buffer = processed.rest,
                    !.emitted = @ \o processed.emitted,
                    !.events =
                      @ \o [i \in 1..Len(processed.emitted) |-> "data"]]
  /\ UNCHANGED <<now, nextPing, ticks, connections, readyState, timers,
                 requests, handled, step, probe, codec,
                 classified, completions>>

\* a listener of 'end' that emits 'end' before it processes what is left
\* in the buffer, which C28 must tell from responseEnd
responseEnd_EndFirst ==
  /\ relay.phase = "open"
  /\ relay.pos = Len(relay.bytes)
  /\ LET flushed == IF Len(trim(relay.buffer)) > 0
                    THEN processSSEChunk(relay.buffer, TRUE).emitted
                    ELSE << >>
     IN relay' =
          [relay EXCEPT
             !.phase = "ended",
             !.emitted = @ \o flushed,
             !.events =
               @ \o << "end" >> \o [i \in 1..Len(flushed) |-> "data"]]
  /\ UNCHANGED <<now, nextPing, ticks, connections, readyState, timers,
                 requests, handled, step, probe, codec,
                 classified, completions>>

\* response.data.on('end'): what is left in the buffer is processed as a
\* last piece
responseEnd ==
  /\ relay.phase = "open"
  /\ relay.pos = Len(relay.bytes)
  /\ LET flushed == IF Len(trim(relay.buffer)) > 0
                    THEN processSSEChunk(relay.buffer, TRUE).emitted
                    ELSE << >>
     IN relay' =
          [relay EXCEPT
             !.phase = "ended",
             !.emitted = @ \o flushed,
             !.events =
               @ \o [i \in 1..Len(flushed) |-> "data"] \o << "end" >>]
  /\ UNCHANGED <<now, nextPing, ticks, connections, readyState, timers,
                 requests, handled, step, probe, codec,
                 classified, completions>>

\* response.data.on('error'): the error is passed on, nothing is flushed
responseError ==
  /\ relay.phase = "open"
  /\ relay' = [relay EXCEPT !.phase = "failed",
                            !.events = @ \o << "error" >>]
  /\ UNCHANGED <<now, nextPing, ticks, connections, readyState, timers,
                 requests, handled, step, probe, codec,
                 classified, completions>>

NextRelay ==
  \/ \E n \in 1..Len(relay.bytes) : responseData(n)
  \/ responseEnd
  \/ responseError

SpecRelay == InitRelay /\ [][NextRelay]_vars

(***************************************************************************)
(* The codec of envelopes: sendMessage encodes an object with              *)
(* JSON.stringify, routeMessage decodes a text with JSON.parse and accepts *)
(* the object it finds if it has a type and an id.  A JSON text is the     *)
(* sequence of its members.                                                *)
(***************************************************************************)
\* the envelopes with a string type and a string id, the empty string
\* included, and a payload that is absent, a string or a number
ValidEnvelopes ==
  [type : {Str(k) : k \in ClientMessageType},
   id : {Str(ClientIds[i]) : i \in 1..Len(ClientIds)} \cup {Str("")},
   payload : {Undefined, Str("a"), [t |-> "number", v |-> "1"]}]

\* JSON.stringify of an object: its members in the order of its keys; a
\* key whose value is undefined is left out
stringify(object) ==
  LET member(key) ==
        IF object[key] = Undefined THEN << >>
        ELSE << [key |-> key, value |-> object[key]] >>
  IN member("type") \o member("id") \o member("payload")

\* JSON.parse of the text of an object, as the router reads its result: a
\* key that is not there reads as undefined
parse(text) ==
  [key \in {"type", "id", "payload"} |->
     IF \E i \in 1..Len(text) : text[i].key = key
     THEN text[CHOOSE i \in 1..Len(text) : text[i].key = key].value
     ELSE Undefined]

\* routeMessage up to its switch: the message, or the throw of
\* 'Invalid message format'
decodeMessage(text) ==
  LET parsedData == parse(text)
  IN IF IsValidFormat([json |-> "object", type |-> parsedData.type,
                       id |-> parsedData.id])
     THEN [ok |-> TRUE, value |-> parsedData]
     ELSE [ok |-> FALSE, value |-> << >>]

\* an envelope is about to be sent
InitCodec ==
  /\ Gateway0
  /\ relay = NoRelay
  /\ classified = NoFailure
  /\ completions = << >>
  /\ \E envelope \in ValidEnvelopes :
       codec = [NoCodec EXCEPT !.phase = "envelope", !.envelope = envelope]

\* sendMessage: const messageString = JSON.stringify(message)
encode ==
  /\ codec.phase = "envelope"
  /\ codec' = [codec EXCEPT !.phase = "encoded",
                            !.text = stringify(codec.envelope)]
  /\ UNCHANGED <<now, nextPing, ticks, connections, readyState, timers,
                 requests, handled, step, probe, relay,
                 classified, completions>>

\* routeMessage: JSON.parse(data.toString()) and the validation
decode ==
  /\ codec.phase = "encoded"
  /\ codec' = [codec EXCEPT !.phase = "decoded",
                            !.decoded = decodeMessage(codec.text)]
  /\ UNCHANGED <<now, nextPing, ticks, connections, readyState, timers,
                 requests, handled, step, probe, relay,
                 classified, completions>>

NextCodec == encode \/ decode

SpecCodec == InitCodec /\ [][NextCodec]_vars

(***************************************************************************)
(* The error classifier on the failure causes of the backends: messages    *)
(* made of the tokens determineErrorCode looks for, in either case, with   *)
(* a detail text.                                                          *)
(***************************************************************************)
\* the most words of an error message
MaxWords == 2

\* the codes of determineErrorCode in the order of its tests
Kinds ==
  <<"TIMEOUT", "AUTH_FAILED", "PERMISSION_DENIED", "NOT_FOUND", "RATE_LIMIT",
    "INVALID_PARAMS", "SERVICE_UNAVAILABLE">>

\* the tokens of each test of determineErrorCode, in the order of the tests
TokenGroups ==
  << {TOK_TIMEOUT, TOK_TIMED_OUT, TOK_ETIMEDOUT},
     {TOK_AUTHENTICATION, TOK_AUTH, TOK_UNAUTHORIZED, TOK_API_KEY},
     {TOK_PERMISSION, TOK_FORBIDDEN, TOK_ACCESS_DENIED},
     {TOK_NOT_FOUND, TOK_404, TOK_DOES_NOT_EXIST},
     {TOK_RATE_LIMIT, TOK_TOO_MANY, TOK_429},
     {TOK_INVALID, TOK_PARAMETER, TOK_ARGUMENT, TOK_BAD_REQUEST, TOK_400},
     {TOK_UNAVAILABLE, TOK_SERVICE, TOK_503} >>

\* a text with no token of any test
TXT_OOPS == <<"o","o","p","s">>
\* a text with a token of the authentication and of the invalid test
TXT_INVALID_API_KEY == TOK_INVALID \o <<" ">> \o TOK_API_KEY

\* the words of an error message, each with the tests it has a token of
Words ==
  UNION {{[text |-> tok, groups |-> {g}] : tok \in TokenGroups[g]} :
           g \in DOMAIN TokenGroups}
  \cup {[text |-> TXT_OOPS, groups |-> {}],
        [text |-> TXT_INVALID_API_KEY, groups |-> {2, 6}]}

\* the upper case of a character of a token
UpperChar(ch) ==
  IF \E i \in 1..Len(LOWER) : LOWER[i] = ch
  THEN UPPER[CHOOSE i \in 1..Len(LOWER) : LOWER[i] = ch]
  ELSE ch

\* a text as the backend writes it: as it is, or in capitals
Cased(text, capitals) ==
  IF capitals THEN [i \in 1..Len(text) |-> UpperChar(text[i])] ELSE text

\* the words of a message, separated by a space
RECURSIVE Sentence(_)
Sentence(words) ==
  IF Len(words) = 0 THEN << >>
  ELSE IF Len(words) = 1 THEN words[1].text
  ELSE words[1].text \o <<" ">> \o Sentence(Tail(words))

\* the error messages of at most MaxWords words
Messages ==
  UNION {[1..n -> Words] : n \in 1..MaxWords}

\* the detail texts: none, or one word
Details ==
  {[text |-> << >>, groups |-> {}]}
  \cup {w \in Words : w.text \in {TOK_TIMEOUT, TOK_NOT_FOUND}}

\* a backend call has failed with err.message and details
InitClassifier ==
  /\ Gateway0
  /\ relay = NoRelay
  /\ codec = NoCodec
  /\ completions = << >>
  /\ \E words \in Messages, detail \in Details, capitals \in BOOLEAN :
       classified =
         [phase |-> "failed",
          error |-> Cased(Sentence(words), capitals),
          details |-> Cased(detail.text, capitals),
          groups |-> UNION {words[i].groups : i \in 1..Len(words)},
          detailGroups |-> detail.groups,
          code |-> ""]

\* const errorCode = determineErrorCode(error, details)
classify ==
  /\ classified.phase = "failed"
  /\ classified' =
       [classified EXCEPT
          !.phase = "classified",
          !.code = determineErrorCode(classified.error, classified.details)]
  /\ UNCHANGED <<now, nextPing, ticks, connections, readyState, timers,
                 requests, handled, step, probe, relay, codec, completions>>

NextClassifier == classify

SpecClassifier == InitClassifier /\ [][NextClassifier]_vars

(***************************************************************************)
(* Several streamed completions at the same time: every call of            *)
(* createChatCompletionStream has its own buffer, every call of            *)
(* handleStreamingChatCompletion its own messageId and connection.         *)
(***************************************************************************)
\* the most streamed completions outstanding at the same time
MaxStreams == 2

\* the payload of the fragments of stream s: the number of s digits 1
RECURSIVE Digits(_)
Digits(s) == IF s = 0 THEN << >> ELSE << "1" >> \o Digits(s - 1)

\* the fragments the backend sends on stream s
fragmentsOf(s) == << Digits(s), Digits(s) >>

\* the response of stream s: its fragments, the last one followed by the
\* delimiter when s is odd and left to the final flush when s is even
responseOf(s) ==
  IF s % 2 = 1 THEN Framed(fragmentsOf(s))
  ELSE SubSeq(Framed(fragmentsOf(s)), 1, Len(Framed(fragmentsOf(s))) - 2)

\* the streams are open, all on one connection or each on its own
InitStreams ==
  /\ Gateway0
  /\ relay = NoRelay
  /\ codec = NoCodec
  /\ classified = NoFailure
  /\ \E shared \in BOOLEAN :
       completions =
         [s \in 1..MaxStreams |->
            [conn |-> IF shared THEN 1 ELSE s,
             messageId |-> Str(ClientIds[s]),
             bytes |-> responseOf(s),
             phase |-> "open", pos |-> 0, buffer |-> << >>,
             sent |-> << >>]]

\* the 'data' listener of handleStreamingChatCompletion for the fragments
\* the relay of stream s emits: one chat_completion_chunk each
chunksOf(s, emitted) ==
  [i \in 1..Len(emitted) |->
     [to |-> completions[s].conn, id |-> completions[s].messageId,
      chunk |-> emitted[i]]]

\* a client that keeps one buffer for all its streams, which C39 must
\* tell from the buffer of the closure
streamChunk_OneBuffer(s, n) ==
  /\ completions[s].phase = "open"
  /\ completions[s].pos + n <= Len(completions[s].bytes)
  /\ LET chunk == SubSeq(completions[s].bytes, completions[s].pos + 1,
                         completions[s].pos + n)
         processed ==
           processSSEChunk(completions[1].buffer \o toString(chunk), FALSE)
     IN completions' =
          [t \in 1..MaxStreams |->
             [completions[t] EXCEPT
                !.pos = IF t = s THEN @ + n ELSE @,
                !.buffer = IF t = 1 THEN processed.rest ELSE @,
                !.sent = IF t = s THEN @ \o chunksOf(s, processed.emitted)
                         ELSE @]]
  /\ UNCHANGED <<now, nextPing, ticks, connections, readyState, timers,
                 requests, handled, step, probe, relay, codec, classified>>

\* response.data.on('data') of stream s: the next n bytes arrive as one
\* Buffer and go through the buffer of that stream
streamChunk(s, n) ==
  /\ completions[s].phase = "open"
  /\ completions[s].pos + n <= Len(completions[s].bytes)
  /\ LET chunk == SubSeq(completions[s].bytes, completions[s].pos + 1,
                         completions[s].pos + n)
         processed ==
           processSSEChunk(completions[s].buffer \o toString(chunk), FALSE)
     IN completions' =
          [completions EXCEPT
             ![s].pos = @ + n,
             ![s].buffer = processed.rest,
             ![s].sent = @ \o chunksOf(s, processed.emitted)]
  /\ UNCHANGED <<now, nextPing, ticks, connections, readyState, timers,
                 requests, handled, step, probe, relay, codec, classified>>

\* response.data.on('end') of stream s
streamEnded(s) ==
  /\ completions[s].phase = "open"
  /\ completions[s].pos = Len(completions[s].bytes)
  /\ LET flushed == IF Len(trim(completions[s].buffer)) > 0
                    THEN processSSEChunk(completions[s].buffer, TRUE).emitted
                    ELSE << >>
     IN completions' =
          [completions EXCEPT
             ![s].phase = "ended",
             ![s].sent = @ \o chunksOf(s, flushed)]
  /\ UNCHANGED <<now, nextPing, ticks, connections, readyState, timers,
                 requests, handled, step, probe, relay, codec, classified>>

NextStreams ==
  \/ \E s \in 1..MaxStreams :
        \E n \in 1..Len(completions[s].bytes) : streamChunk(s, n)
  \/ \E s \in 1..MaxStreams : streamEnded(s)

SpecStreams == InitStreams /\ [][NextStreams]_vars

(***************************************************************************)
(* Properties                                                              *)
(***************************************************************************)
\* the last step handled a decoded frame of one of these kinds, received
\* on a session whose flag was false
UnauthenticatedFrame(kinds) ==
  /\ step.op \in {"ping", "tool_call", "tool_selection", "chat", "chatThrow",
                  "search"}
  /\ step.decoded
  /\ ~step.authed
  /\ step.type \in {Str(k) : k \in kinds}

\* the answer of the last step is the rejection of the gate
Rejected ==
  step.sent =
    << Envelope(step.conn, "error", step.id, "NOT_AUTHENTICATED", FALSE) >>

GatedKinds ==
  {"tool_call", "tool_selection", "chat_completion", "natural_language_search"}

C2_NoBackendCall ==
  UnauthenticatedFrame(GatedKinds) =>
    /\ step.calls = << >>
    /\ step.done
    /\ step.n \notin DOMAIN requests

\* a chat_completion frame of an unauthenticated session has been handled,
\* after an earlier frame of the same behaviour
C2_Witness ==
  /\ UnauthenticatedFrame({"chat_completion"})
  /\ step.n > 1
  /\ step.calls = << >>

\* the last step handled the n-th frame, a request with the fields its
\* kind requires
Asked(n) ==
  /\ step.op \in {"auth", "ping", "tool_call", "tool_selection", "search",
                  "chat"}
  /\ step.n = n

\* the last step wrote a terminal response to the n-th frame, with its id,
\* to the socket the frame came from
Answered(n) ==
  /\ step.n = n
  /\ \E i \in 1..Len(step.sent) :
       /\ step.sent[i].type \in TerminalTypes
       /\ step.sent[i].id = step.id
       /\ step.sent[i].to = step.conn

\* the last step ended the handler of the n-th frame on a socket that was
\* no longer open
Dropped(n) == step.n = n /\ step.done /\ ~step.open

\* a behaviour of SpecLive handles fewer frames than MaxLoadLive
FrameNumbers == 1..(MaxLoadLive - 1)

C4_AtMostOneTerminal ==
  /\ step.before + Terminals(step.sent) <= 1
  /\ \A r \in DOMAIN requests : requests[r].terminals <= 1

\* an auto-executed tool has failed after the completion succeeded: the
\* error is the only terminal response of the chat_completion
C4_Witness ==
  /\ step.op = "autoToolDone"
  /\ step.done
  /\ step.before = 0
  /\ Len(step.sent) = 1
  /\ step.sent[1].type = "error"

\* C5: every envelope written in answer to a decoded request, by the step
\* of its frame or by a continuation of its handler, under any interleaving
\* of outstanding requests, carries the correlation id of that request.
C5_AsStated ==
  step.decoded =>
    \A i \in 1..Len(step.sent) : step.sent[i].id = step.id

\* C6: a session enters the table with its flag false, and a step turns
\* the flag of a session to true only if it handles an auth frame of that
\* session whose trimmed credential is the trimmed configured key, and it
\* answers that frame with auth_result, success true, under the id of the
\* frame.  No step of another kind (ping, tool call, completion, tick of
\* the heartbeat, failed auth) turns a flag to true.
C6_FlagSetOnlyByAuth ==
  [][\A c \in ConnIds :
       /\ (c \notin DOMAIN connections /\ c \in DOMAIN connections')
            => ~connections'[c].isAuthenticated
       /\ ( /\ c \in DOMAIN connections
            /\ c \in DOMAIN connections'
            /\ ~connections[c].isAuthenticated
            /\ connections'[c].isAuthenticated )
            => /\ step'.op = "auth"
               /\ step'.conn = c
               /\ Trim(step'.key) = Trim(API_KEY)
               /\ step'.sent =
                    << Envelope(c, "auth_result", step'.id, "", TRUE) >>
    ]_vars

\* an auth frame whose credential differs from the configured key only by
\* white space has turned the flag of its session to true
C6_Witness ==
  /\ step.op = "auth"
  /\ ~step.authed
  /\ step.key # API_KEY
  /\ step.conn \in DOMAIN connections
  /\ connections[step.conn].isAuthenticated

\* the last step handled an auth frame whose credential is wrong
AuthRefused ==
  /\ step.op = "auth"
  /\ Trim(step.key) # Trim(API_KEY)

\* the sessions that may be refused within the bound
RefusedSessions == 1..(MaxLoadLive - 1)

\* C7: the step that handles an auth frame with a wrong credential sends
\* auth_result, success false, under the id of the frame, leaves the
\* session open and in the table, and starts a timer of one second; the
\* timer does not fire before its delay and leaves the socket terminated;
\* and a session that has been refused is eventually out of the table.
C7_RefusedThenTerminated ==
  /\ [](AuthRefused =>
          /\ step.sent =
               << Envelope(step.conn, "auth_result", step.id, "", FALSE) >>
          /\ readyState[step.conn] = "OPEN"
          /\ step.conn \in DOMAIN connections
          /\ [conn |-> step.conn, due |-> now + AUTH_FAIL_DELAY] \in timers)
  /\ [][\A t \in timers :
          t \notin timers' => /\ now >= t.due
                              /\ readyState'[t.conn] # "OPEN"]_vars
  /\ \A c \in RefusedSessions :
       (AuthRefused /\ step.conn = c) ~> (c \notin DOMAIN connections)

\* the timer of a refused session has fired one second after the refusal
\* and the close event has taken the session out of the table
C7_Witness ==
  /\ now = AUTH_FAIL_DELAY
  /\ timers = {}
  /\ handled = 1
  /\ readyState[1] = "CLOSED"
  /\ 1 \notin DOMAIN connections

\* the probe of session c is outstanding: the peer has answered it with
\* neither a pong frame nor a ping envelope
Unacknowledged(c) == probe[c].sentAt >= 0 /\ ~probe[c].acked

\* C8: a session that acknowledges no probe is out of the table within
\* 2 * PING_INTERVAL + PING_TIMEOUT of its first unacknowledged probe: no
\* session is in the table later than that after the probe.
C8_EvictedInTime ==
  \A c \in DOMAIN connections :
    Unacknowledged(c) =>
      now - probe[c].sentAt <= 2 * PING_INTERVAL + PING_TIMEOUT

\* the monitor has removed a session two intervals after the probe it
\* never acknowledged
C8_Witness ==
  /\ step.op = "pingConnections"
  /\ \E c \in step.removed :
       /\ Unacknowledged(c)
       /\ now - probe[c].sentAt = 2 * PING_INTERVAL

\* C9: a session whose peer has acknowledged the outstanding probe with a
\* pong frame, and whose socket is open, is not taken out of the table by
\* a tick of the heartbeat monitor.
C9_AsStated ==
  [][\A c \in DOMAIN connections :
       ( /\ probe[c].acked
         /\ readyState[c] = "OPEN"
         /\ step'.op = "pingConnections" )
         => c \in DOMAIN connections'
    ]_vars

\* the last step is the completion of a backend call or an event of a
\* backend stream
BackendCompleted ==
  step.op \in {"callToolDone", "enhanceDone", "searchToolDone", "searchDone",
               "formatToolsDone", "completionDone", "autoSearchDone",
               "autoToolDone", "streamData", "streamError", "streamEnd"}

\* the session of the last step is destroyed: it is out of the table or
\* its socket is no longer open
Destroyed == step.conn \notin DOMAIN connections \/ ~step.open

\* C10: when a backend call of a destroyed session completes (the session
\* closed by its peer, removed after a transport error, evicted by the
\* heartbeat monitor or terminated after a failed auth), the step writes no
\* frame; and no step writes an envelope to a socket other than that of
\* the session whose request it answers.
C10_LateResponseDropped ==
  /\ (BackendCompleted /\ Destroyed) => step.sent = << >>
  /\ \A i \in 1..Len(step.sent) : step.sent[i].to = step.conn

\* the last call of a handler has completed after the second tick of the
\* monitor, for a session that is out of the table, and nothing was written
C10_Witness ==
  /\ BackendCompleted
  /\ step.done
  /\ step.conn \notin DOMAIN connections
  /\ step.sent = << >>
  /\ ticks = 2

\* the last step ran a listener of a backend stream
StreamListener == step.op \in {"streamData", "streamError", "streamEnd"}

\* C11: once a session is out of the table the streams it owns are
\* cancelled: no listener of such a stream runs any more, so no chunk of it
\* is processed.
C11_AsStated == StreamListener => step.conn \in DOMAIN connections

\* C12: a failure while handling a decoded frame of a known kind (a payload
\* that makes the handler throw, a failed backend call) is answered with
\* one error envelope under the id of that frame.
C12_AsStated ==
  ( /\ step.decoded
    /\ step.open
    /\ step.type \in {Str(k) : k \in ClientMessageType}
    /\ \E i \in 1..Len(step.sent) : step.sent[i].type = "error" )
    => /\ Len(step.sent) = 1
       /\ step.sent[1].id = step.id

\* C13: a frame that fails decoding is answered with exactly one error
\* envelope, of code INVALID_FORMAT and under a synthesized id, and starts
\* no handler and no backend call.
C13_AsStated ==
  step.op = "malformed" =>
    /\ step.sent =
         << Envelope(step.conn, "error", Uuid, "INVALID_FORMAT", FALSE) >>
    /\ step.calls = << >>
    /\ step.done

\* C15: a decoded frame of an unknown kind is answered with an error
\* envelope of code INVALID_FORMAT under the id of the frame.
C15_AsStated ==
  step.op = "unknown" =>
    step.sent =
      << Envelope(step.conn, "error", step.id, "INVALID_FORMAT", FALSE) >>

\* C14: a frame that fails decoding does not close its session: the step
\* leaves the table, the sockets and the timers as they were, the session
\* is in the table with its socket open after it, and a ping that follows
\* on the session is answered with pong under its id.
C14_MalformedKeepsSession ==
  /\ [](step.op = "malformed" =>
          /\ step.conn \in DOMAIN connections
          /\ readyState[step.conn] = "OPEN")
  /\ [][step'.op = "malformed" =>
          /\ connections' = connections
          /\ readyState' = readyState
          /\ timers' = timers]_vars
  /\ [][(step.op = "malformed" /\ step'.op = "ping"
          /\ step'.conn = step.conn) =>
          step'.sent =
            << Pong(step.conn, step'.id, now') >>]_vars

\* an authenticated session has received a frame that fails decoding,
\* after other frames, and is still authenticated
C14_Witness ==
  /\ step.op = "malformed"
  /\ step.n >= 2
  /\ step.conn \in DOMAIN connections
  /\ connections[step.conn].isAuthenticated

\* the last step got a successful answer of the completion backend with
\* a non-empty candidate list
Suggested == step.completed /\ step.suggestions # << >>

\* the highest confidence of the candidates of the last step reaches the
\* threshold
HighConfidence ==
  /\ Suggested
  /\ \E i \in 1..Len(step.suggestions) :
       step.suggestions[i].confidence >= AUTO_EXECUTE_THRESHOLD

\* the candidates of the last step no other candidate exceeds
TopCandidates ==
  {step.suggestions[i] : i \in
     {i \in 1..Len(step.suggestions) :
        \A j \in 1..Len(step.suggestions) :
          step.suggestions[j].confidence <= step.suggestions[i].confidence}}

\* the types of the envelopes of the last step
SentTypes == {step.sent[i].type : i \in 1..Len(step.sent)}

\* the last step ended an auto-execution
AutoDone == step.op \in {"autoToolDone", "autoSearchDone"}

LowConfidence == Suggested /\ ~HighConfidence

\* C17: a completion whose highest candidate confidence is below the
\* threshold invokes no tool, sends no tool_result and leaves nothing of
\* the request pending; every pending auto-execution is of a candidate at
\* or above the threshold; and a tool_result is only ever written for a
\* tool_call or tool_selection request or by such an auto-execution.
C17_NoToolBelowThreshold ==
  /\ LowConfidence =>
       /\ step.calls = << >>
       /\ step.done
       /\ step.n \notin DOMAIN requests
       /\ "tool_result" \notin SentTypes
  /\ \A r \in DOMAIN requests :
       requests[r].phase \in {"autoTool", "autoSearch"} =>
         requests[r].auto.confidence >= AUTO_EXECUTE_THRESHOLD
  /\ "tool_result" \in SentTypes =>
       \/ step.type \in {Str("tool_call"), Str("tool_selection")}
       \/ step.op = "autoToolDone"

\* a completion with candidates of confidence 50 and 89 has been answered
\* on an open socket and nothing of the request is pending
C17_Witness ==
  /\ LowConfidence
  /\ step.open
  /\ \E i \in 1..Len(step.suggestions) : step.suggestions[i].confidence = 89
  /\ step.done
  /\ step.calls = << >>

\* C18: a step that gets a successful completion with a non-empty
\* candidate list none of whose candidates reaches the threshold writes,
\* on an open socket, exactly one envelope: a tool_suggestions to the
\* requesting session, under the request's correlation id, with the
\* candidate list as the backend gave it and the content of the last
\* message of the request as the original utterance.
C18_SuggestionsEnvelope ==
  [][(LowConfidence' /\ step'.open /\ step'.n \in DOMAIN requests) =>
       LET messages == requests[step'.n].messages
       IN /\ Len(step'.sent) = 1
          /\ step'.sent[1].type = "tool_suggestions"
          /\ step'.sent[1].to = requests[step'.n].conn
          /\ step'.sent[1].id = requests[step'.n].id
          /\ step'.sent[1].data.suggestions = step'.suggestions
          /\ messages # << >>
          /\ step'.sent[1].data.originalQuery = messages[Len(messages)]]_vars

\* the candidates of confidence 50 and 89 have been sent in a
\* tool_suggestions envelope that quotes the last message, "q2"
C18_Witness ==
  /\ LowConfidence
  /\ Len(step.sent) = 1
  /\ step.sent[1].type = "tool_suggestions"
  /\ Len(step.sent[1].data.suggestions) = 2
  /\ step.sent[1].data.originalQuery = "q2"

\* the last step got a successful completion without candidates
NoSuggestions == step.completed /\ step.suggestions = << >>

\* C19: a step that gets a successful completion with an empty or absent
\* candidate list invokes no tool and leaves nothing of the request
\* pending; on an open socket it writes exactly one envelope, a
\* chat_completion_result to the requesting session under the request's
\* correlation id, and so neither tool_suggestions nor tool_result.
C19_PlainResult ==
  NoSuggestions =>
    /\ step.op = "completionDone"
    /\ ~step.stream
    /\ step.calls = << >>
    /\ step.done
    /\ step.n \notin DOMAIN requests
    /\ SentTypes \subseteq {"chat_completion_result"}
    /\ step.open =>
         /\ Len(step.sent) = 1
         /\ step.sent[1].type = "chat_completion_result"
         /\ step.sent[1].to = step.conn
         /\ step.sent[1].id = step.id
         /\ step.sent[1].data = NoData

\* a successful completion without candidates has been answered by a
\* chat_completion_result on an open socket
C19_Witness ==
  /\ NoSuggestions
  /\ step.open
  /\ SentTypes = {"chat_completion_result"}

\* what the relay emits when the whole response arrives as one Buffer
\* followed by 'end'
emittedWhole(bytes) ==
  LET processed == processSSEChunk(toString(bytes), FALSE)
  IN processed.emitted
       \o (IF Len(trim(processed.rest)) > 0
           THEN processSSEChunk(processed.rest, TRUE).emitted
           ELSE << >>)

\* C20, as stated: whatever the cuts between the Buffers of a backend
\* response, a cut inside a fragment or between the two line breaks of a
\* delimiter included, the relay has emitted at the end of the response
\* the same sequence of fragments as for the response in one piece.
C20_AsStated ==
  relay.phase = "ended" => relay.emitted = emittedWhole(relay.bytes)

\* a response has ended whose Buffers were cut between the two bytes of a
\* character, and a fragment with the replacement character was emitted
C20_Witness ==
  /\ relay.phase = "ended"
  /\ \E i \in 1..Len(relay.emitted) :
       \E j \in 1..Len(relay.emitted[i]) : relay.emitted[i][j] = Replacement

\* the payloads the backend sent that are fragments, in the order sent
fragmentsSent == SelectSeq(relay.payloads, LAMBDA p : p # Done)

\* the text of a payload or of an emitted fragment without its
\* characters outside ASCII, whose decoding depends on the cuts
ascii(text) ==
  SelectSeq(text, LAMBDA ch : ch \notin {LeadByte, ContinuationByte,
                                        EAcute, Replacement})

\* C21: at every moment of every response, whatever the cuts, the
\* fragments emitted so far are the first fragments the backend sent, in
\* the order sent and each once (the i-th emitted is the i-th sent); when
\* the response has ended every fragment sent has been emitted, the
\* carry-over buffer and the final flush adding none twice; and the
\* marker [DONE] is never emitted.
C21_InOrderOnce ==
  /\ Len(relay.emitted) <= Len(fragmentsSent)
  /\ \A i \in 1..Len(relay.emitted) :
       /\ ascii(relay.emitted[i]) = ascii(fragmentsSent[i])
       /\ relay.emitted[i] # Done
  /\ relay.phase = "ended" => Len(relay.emitted) = Len(fragmentsSent)
  /\ relay.phase = "none" => relay.emitted = << >>

\* a response of two different fragments, the second of them without
\* delimiter and so left to the final flush, has ended
C21_Witness ==
  /\ relay.phase = "ended"
  /\ Len(relay.emitted) = 2
  /\ relay.emitted[1] # relay.emitted[2]
  /\ relay.bytes[Len(relay.bytes)] # LF

\* C22, as stated: when socket.send throws while an envelope is sent to a
\* session, nothing is written to the client and the session is destroyed
\* at once: its socket is no longer open and it is no longer in the table.
C22_AsStated ==
  step.op = "socket.send" =>
    /\ step.sent = << >>
    /\ step.conn \notin DOMAIN connections
    /\ readyState[step.conn] # "OPEN"

\* socket.send has thrown while a tool_result was sent to an open session
C22_Witness ==
  /\ step.op = "socket.send"
  /\ step.open
  /\ step.sent = << >>

\* C23: the step that handles a decoded ping frame, whether or not the
\* session is authenticated and whether or not it had a probe outstanding,
\* leaves the session in the table with pendingPong false and lastPing the
\* current time, calls no backend, and writes exactly one envelope: a pong
\* to the session under the id of the frame with the current time as
\* timestamp.
C23_PingAnswered ==
  step.op = "ping" =>
    /\ step.decoded
    /\ step.conn \in DOMAIN connections
    /\ ~connections[step.conn].pendingPong
    /\ connections[step.conn].lastPing = now
    /\ connections[step.conn].isAuthenticated = step.authed
    /\ step.calls = << >>
    /\ step.done
    /\ step.sent =
         << Pong(step.conn, step.id, now) >>

\* a session that is not authenticated and had a probe outstanding has
\* sent a ping frame after the first tick and got its pong
C23_Witness ==
  /\ step.op = "ping"
  /\ ~step.authed
  /\ step.pending
  /\ now > 0
  /\ Len(step.sent) = 1
  /\ step.sent[1].type = "pong"

\* C24, as stated: for every envelope with a string type and a string id,
\* the empty string included, decoding the encoding of the envelope
\* succeeds and gives an envelope equal to it.
C24_AsStated ==
  codec.phase = "decoded" =>
    /\ codec.decoded.ok
    /\ codec.decoded.value = codec.envelope

\* an envelope with a payload and the empty string as id has been encoded
\* and the decoding of its text has been refused
C24_Witness ==
  /\ codec.phase = "decoded"
  /\ codec.envelope.id = Str("")
  /\ codec.envelope.payload = Str("a")
  /\ ~codec.decoded.ok

\* C25, as stated: when JSON.stringify throws on the payload of a
\* response, the exception does not leave sendMessage (the handler ends
\* its step) and the client is sent, in place of the response, one error
\* envelope under the id of the request.
C25_AsStated ==
  step.op = "JSON.stringify" =>
    /\ step.done
    /\ Len(step.sent) = 1
    /\ step.sent[1].type = "error"
    /\ step.sent[1].id = step.id

\* JSON.stringify has thrown on the tool_result of a request of an open
\* session; the handler has ended and the client has been sent nothing
C25_Witness ==
  /\ step.op = "JSON.stringify"
  /\ step.open
  /\ step.done
  /\ step.sent = << >>
  /\ step.conn \in DOMAIN connections

\* C26, as stated: on a tick of the heartbeat monitor, a session with a
\* pending pong whose lastPing is more than PING_TIMEOUT old is removed
\* from the table; otherwise a session without a pending pong that stays
\* in the table has pendingPong = TRUE and lastPing = now after the tick.
C26_AsStated ==
  [][step'.op = "pingConnections" =>
       \A c \in DOMAIN connections :
         /\ timedOut(c) => c \notin DOMAIN connections'
         /\ ( /\ ~timedOut(c)
              /\ ~connections[c].pendingPong
              /\ c \in DOMAIN connections' )
              => /\ connections'[c].pendingPong
                 /\ connections'[c].lastPing = now
    ]_vars

\* a tick has just sent a probe to a session of an open socket: the
\* session waits for its pong and its lastPing is older than the tick
C26_Witness ==
  /\ step.op = "pingConnections"
  /\ \E c \in DOMAIN connections :
       /\ probe[c].sentAt = now
       /\ connections[c].pendingPong
       /\ connections[c].lastPing < now

\* C27: on a tick of the heartbeat monitor, every session whose
\* socket.ping() throws is out of the table after the tick with its socket
\* terminated, and the tick has treated every other session all the same:
\* removed if its pong timed out, waiting for a pong if not.
C27_FailedProbeRemoved ==
  [][(step'.op = "pingConnections" /\ step'.failed # {}) =>
       /\ \A c \in step'.failed :
            /\ c \notin DOMAIN connections'
            /\ readyState'[c] # "OPEN"
       /\ \A d \in DOMAIN connections \ step'.failed :
            IF timedOut(d) THEN d \notin DOMAIN connections'
            ELSE /\ d \in DOMAIN connections'
                 /\ connections'[d].pendingPong
    ]_vars

\* a tick in which socket.ping() has thrown for one session, now out of
\* the table, has sent its probe to another session
C27_Witness ==
  /\ step.op = "pingConnections"
  /\ \E c \in step.failed : c \notin DOMAIN connections
  /\ \E d \in DOMAIN connections :
       /\ probe[d].sentAt = now
       /\ connections[d].pendingPong

\* C28: 'end' is emitted at most once, only by the listener of 'end', and
\* nothing is emitted after it: when the response has ended the events are
\* one 'data' for each fragment emitted and then one 'end'. When the
\* response ends with a fragment left in the carry-over buffer (the last
\* payload is a fragment and no delimiter follows it), that fragment is
\* the last one emitted, before 'end'.
C28_FlushBeforeEnd ==
  /\ relay.phase # "ended" =>
       \A i \in 1..Len(relay.events) : relay.events[i] # "end"
  /\ relay.phase = "ended" =>
       /\ relay.events =
            [i \in 1..Len(relay.emitted) |-> "data"] \o << "end" >>
       /\ ( /\ Len(trim(relay.buffer)) > 0
            /\ relay.payloads[Len(relay.payloads)] # Done )
            => /\ Len(relay.emitted) = Len(fragmentsSent)
               /\ ascii(relay.emitted[Len(relay.emitted)])
                    = ascii(relay.payloads[Len(relay.payloads)])

\* a response has ended with a fragment left in the carry-over buffer:
\* the event before 'end' is the 'data' of that fragment
C28_Witness ==
  /\ relay.phase = "ended"
  /\ Len(trim(relay.buffer)) > 0
  /\ relay.payloads[Len(relay.payloads)] # Done
  /\ Len(relay.events) >= 2
  /\ relay.events[Len(relay.events) - 1] = "data"
  /\ relay.events[Len(relay.events)] = "end"

\* the codes a classification of the failure causes gives when a cause
\* that matches no token of the classifier gets the code fallback
classifiedOr(fallback) ==
  {IF errorCodeOf[cause, details] = "INTERNAL_ERROR" THEN fallback
   ELSE errorCodeOf[cause, details] :
     cause \in Causes, details \in {<< >>, MSG_UNKNOWN_ERROR}}

\* C29, as stated: the listener of 'error' of a backend stream of an open
\* session writes one error envelope under the id of the request, whose
\* code is the classification of the cause, TIMEOUT when the cause matches
\* no token of the classifier, and the stream is over.
C29_AsStated ==
  (step.op = "streamError" /\ step.open) =>
    /\ step.done
    /\ Len(step.sent) = 1
    /\ step.sent[1].type = "error"
    /\ step.sent[1].id = step.id
    /\ step.sent[1].code \in classifiedOr("TIMEOUT")

\* a backend stream of an open session has failed with a cause that
\* matches no token, and the error envelope of the request carries the
\* code of an internal error
C29_Witness ==
  /\ step.op = "streamError"
  /\ step.open
  /\ step.done
  /\ Len(step.sent) = 1
  /\ step.sent[1].type = "error"
  /\ step.sent[1].id = step.id
  /\ step.sent[1].code = "INTERNAL_ERROR"

\* C30, as stated: when the tool of a tool_call, of a tool_selection or of
\* an auto-executed suggestion fails on an open session, the error
\* envelope carries the id of the request and the classification of the
\* failure, TOOL_CALL_FAILED when the failure matches no token of the
\* classifier.
C30_AsStated ==
  (step.op \in {"callToolDone", "autoToolDone"} /\ step.open) =>
    \A i \in 1..Len(step.sent) :
      step.sent[i].type = "error" =>
        /\ step.sent[i].id = step.id
        /\ step.sent[i].code \in classifiedOr("TOOL_CALL_FAILED")

\* the tool of a tool_call or of a tool_selection of an open session has
\* failed with a cause that matches no token, and the error envelope of
\* the request carries the code of an internal error
C30_Witness ==
  /\ step.op = "callToolDone"
  /\ step.open
  /\ step.type \in {Str("tool_call"), Str("tool_selection")}
  /\ Len(step.sent) = 1
  /\ step.sent[1].type = "error"
  /\ step.sent[1].id = step.id
  /\ step.sent[1].code = "INTERNAL_ERROR"

\* the tests of determineErrorCode the failure has a token for: those of
\* its message, and the first if its detail text has the token timeout
matched ==
  classified.groups
    \cup (IF Includes(ToLowerCase(classified.details), TOK_TIMEOUT)
          THEN {1} ELSE {})

\* C31: the classifier gives a failure the code of the first test, in the
\* order timeout, authentication, permission, not found, rate limit,
\* invalid parameters, service unavailable, that the failure has a token
\* for, whatever the case of its letters and whatever later tests it has
\* tokens for too, and the internal-error code when it has a token for none.
C31_FirstGroupWins ==
  classified.phase = "classified" =>
    classified.code =
      IF matched = {} THEN "INTERNAL_ERROR"
      ELSE Kinds[CHOOSE g \in matched : \A h \in matched : g <= h]

\* the message INVALID API KEY TIMEOUT, with tokens of three tests, was
\* classified as a timeout
C31_Witness ==
  /\ classified.phase = "classified"
  /\ classified.error
       = Cased(TXT_INVALID_API_KEY \o <<" ">> \o TOK_TIMEOUT, TRUE)
  /\ classified.groups = {1, 2, 6}
  /\ classified.details = << >>
  /\ classified.code = "TIMEOUT"

\* C32, as stated: a failure whose message has no token of any test and
\* whose detail text has a token of some test gets the code of that test.
C32_AsStated ==
  ( /\ classified.phase = "classified"
    /\ classified.groups = {}
    /\ classified.detailGroups # {} )
    => \E g \in classified.detailGroups : classified.code = Kinds[g]

\* the failure with the message oops and the detail text not found was
\* classified as an internal error
C32_Witness ==
  /\ classified.phase = "classified"
  /\ classified.error = TXT_OOPS
  /\ classified.details = TOK_NOT_FOUND
  /\ classified.code = "INTERNAL_ERROR"

\* C33, as stated: a frame passes the validation of the router, and so
\* reaches the switch that hands it to a handler, only if it parses to an
\* object whose type is a string and whose id is a string.
C33_AsStated ==
  step.decoded =>
    /\ step.type.t = "string"
    /\ step.id.t = "string"

\* the ping handler has answered a frame whose id is the number 7 with a
\* pong carrying that number
C33_Witness ==
  /\ step.op = "ping"
  /\ step.id = NumericId
  /\ step.decoded
  /\ Len(step.sent) = 1
  /\ step.sent[1].type = "pong"
  /\ step.sent[1].id = NumericId

\* C34: no step turns the flag of a session that stays in the table from
\* true to false, whether it handles a frame, an auth frame with a wrong
\* key included, or runs a timer; and a tool_call or tool_selection frame
\* of a session whose flag is true is not rejected by the gate but starts
\* its backend call, a termination timer pending or not.
C34_FlagMonotonic ==
  /\ [][\A c \in DOMAIN connections \cap DOMAIN connections' :
          connections[c].isAuthenticated => connections'[c].isAuthenticated
       ]_vars
  /\ []((step.op \in {"tool_call", "tool_selection"} /\ step.authed) =>
          /\ ~Rejected
          /\ step.calls = << "callTool" >>)

\* an auth frame with a wrong key was handled on a session whose flag was
\* true: the flag is still true and the termination timer is pending
C34_Witness ==
  /\ AuthRefused
  /\ step.authed
  /\ step.conn \in DOMAIN connections
  /\ connections[step.conn].isAuthenticated
  /\ \E t \in timers : t.conn = step.conn

\* C35: a termination timer is never cancelled: it stays pending until it
\* fires, whatever frames are handled in the meantime, a successful auth
\* included; time does not pass its delay while it is pending; when it
\* fires the socket of its session is no longer open, authenticated or
\* not; and after every refused auth frame the socket of the session is
\* eventually not open.
C35_NeverCancelled ==
  /\ [][\A t \in timers :
          /\ step'.op # "" => t \in timers'
          /\ t \notin timers' => /\ now = t.due
                                  /\ now' = now
                                  /\ readyState'[t.conn] # "OPEN"]_vars
  /\ [](\A t \in timers : now <= t.due)
  /\ \A c \in RefusedSessions :
       (AuthRefused /\ step.conn = c) ~> (readyState[c] # "OPEN")

\* the timer of a refused auth frame has terminated the socket of a
\* session that is authenticated and was still in the table
C35_Witness ==
  /\ timers = {}
  /\ step = NoStep
  /\ now = AUTH_FAIL_DELAY
  /\ \E c \in DOMAIN connections :
       /\ connections[c].isAuthenticated
       /\ readyState[c] = "CLOSING"

\* the session of socket c has been removed from the table
Removed(c) == readyState[c] # "NONE" /\ c \notin DOMAIN connections

\* C36: a removed session never comes back into the table; a frame, the
\* close event or a termination timer of its socket leaves the table, the
\* sockets of the other sessions and the waiting handlers as they are,
\* writes nothing and starts no backend call; and a tick of the heartbeat
\* monitor neither probes nor removes it.
C36_RemovalFinal ==
  [][\A c \in ConnIds :
       Removed(c) =>
         /\ c \notin DOMAIN connections'
         /\ ( \/ step'.op = "unknownConnection" /\ step'.conn = c
              \/ readyState'[c] # readyState[c]
              \/ \E t \in timers \ timers' : t.conn = c )
              => /\ connections' = connections
                 /\ \A d \in ConnIds \ {c} : readyState'[d] = readyState[d]
                 /\ requests' = requests
                 /\ step'.sent = << >>
                 /\ step'.calls = << >>
         /\ step'.op = "pingConnections"
              => /\ c \notin step'.removed
                 /\ probe'[c] = probe[c]
                 /\ readyState'[c] = readyState[c]
    ]_vars

\* a frame has arrived for a session that was removed after an error of
\* its socket, while another session is in the table
C36_Witness ==
  /\ step.op = "unknownConnection"
  /\ Removed(step.conn)
  /\ connections # << >>

\* C37: a tick of the heartbeat monitor sends no probe to a session that
\* has a pending pong, so that at most one probe of a session is
\* outstanding; and it leaves such a session as it is, in the table, with
\* its fields and its socket unchanged, when lastPing is not more than
\* PING_TIMEOUT old.
C37_OneProbe ==
  [][step'.op = "pingConnections" =>
       \A c \in DOMAIN connections :
         connections[c].pendingPong =>
           /\ probe'[c] = probe[c]
           /\ now - connections[c].lastPing <= PING_TIMEOUT
                => /\ c \in DOMAIN connections'
                   /\ connections'[c] = connections[c]
                   /\ readyState'[c] = readyState[c]
    ]_vars

\* a tick has left alone a session whose probe, sent by the tick before,
\* is still outstanding
C37_Witness ==
  /\ step.op = "pingConnections"
  /\ \E c \in DOMAIN connections :
       /\ connections[c].pendingPong
       /\ probe[c].sentAt = now - PING_INTERVAL
       /\ ~probe[c].acked
       /\ now - connections[c].lastPing <= PING_TIMEOUT

\* C38: a tool_selection frame is handled as a tool_call frame is: what
\* the handler writes and calls is the same function of the flag of the
\* session and of the outcome of the call for both kinds, whatever frames
\* came before.  On a session whose flag is true it writes a status
\* envelope and calls the tool; when the call has answered, on an open
\* socket, it writes the tool_result or the error of the classified
\* failure, under the id of the frame.
C38_SelectionAsCall ==
  /\ (step.op \in {"tool_call", "tool_selection"} /\ step.authed) =>
       /\ step.sent = << Envelope(step.conn, "status", step.id, "", FALSE) >>
       /\ step.calls = << "callTool" >>
       /\ ~step.done
  /\ (step.op \in {"tool_call", "tool_selection"} /\ ~step.authed) =>
       /\ Rejected
       /\ step.calls = << >>
       /\ step.done
  /\ (step.op = "callToolDone" /\ step.open) =>
       /\ step.type \in {Str("tool_call"), Str("tool_selection")}
       /\ step.done
       /\ step.calls = << >>
       /\ step.sent \in
            {<< Envelope(step.conn, "tool_result", step.id, "", TRUE) >>}
            \cup {<< Envelope(step.conn, "error", step.id,
                              errorCodeOf[cause, MSG_UNKNOWN_ERROR], FALSE) >> :
                    cause \in Causes}

\* the tool of a tool_selection frame, the second frame of the behaviour
\* after the auth frame, has answered and its tool_result was written: no
\* tool was ever suggested and no other request ever made
C38_Witness ==
  /\ step.op = "callToolDone"
  /\ step.type = Str("tool_selection")
  /\ step.n = 2
  /\ handled = 2
  /\ step.sent = << Envelope(step.conn, "tool_result", step.id, "", TRUE) >>

\* C39: whatever the order in which the Buffers of the streams arrive and
\* wherever they are cut, the chunks written for a stream are the first
\* fragments of that stream, in order, all of them once it has ended, as
\* if it ran alone; and each carries the id of the request of its stream
\* and goes to the connection of that request.
C39_Isolated ==
  \A s \in DOMAIN completions :
    /\ Len(completions[s].sent) <= Len(fragmentsOf(s))
    /\ \A i \in 1..Len(completions[s].sent) :
         /\ completions[s].sent[i].chunk = fragmentsOf(s)[i]
         /\ completions[s].sent[i].id = completions[s].messageId
         /\ completions[s].sent[i].to = completions[s].conn
    /\ completions[s].phase = "ended"
         => Len(completions[s].sent) = Len(fragmentsOf(s))

\* two streams of one connection are both in the middle of their second
\* fragment, each with its first fragment written and text in its buffer
C39_Witness ==
  /\ DOMAIN completions # {}
  /\ completions[1].conn = completions[2].conn
  /\ \A s \in 1..2 :
       /\ completions[s].phase = "open"
       /\ Len(completions[s].sent) = 1
       /\ completions[s].buffer # << >>
       /\ completions[s].buffer # completions[3 - s].buffer

\* C40: no step of the handler of a chat_completion frame with stream
\* true asks for the tools or for tool suggestions or calls a tool: the
\* only call is the one that opens the backend stream, and the only
\* envelopes written are status, chat_completion_chunk and error.
C40_StreamBypassesTools ==
  (step.stream /\ step.type = Str("chat_completion")) =>
    /\ step.op \in {"chat", "chatThrow", "streamData", "streamError",
                    "streamEnd"}
    /\ \A i \in 1..Len(step.calls) :
         step.calls[i] = "createChatCompletionStream"
    /\ \A i \in 1..Len(step.sent) :
         step.sent[i].type \in {"status", "chat_completion_chunk", "error"}
    /\ step.suggestions = << >>
    /\ ~step.completed

\* a chunk of the backend stream of a streamed chat_completion was passed
\* on to the open session as a chat_completion_chunk under the id of the
\* request
C40_Witness ==
  /\ step.op = "streamData"
  /\ step.stream
  /\ step.type = Str("chat_completion")
  /\ step.open
  /\ step.calls = << >>
  /\ step.sent =
       << Envelope(step.conn, "chat_completion_chunk", step.id, "", FALSE) >>

====
